---- MODULE Spec2Model ----
(***************************************************************************)
(* Model of the ambiguity detector of the Romanian word-sense              *)
(* disambiguation backend (src/backend/ambiguity).                         *)
(*                                                                         *)
(* Texts (tokens, POS tags, definitions, literals) are sequences of        *)
(* one-character strings, so that lower(), capitalize(), startswith() and  *)
(* " ".join() are computed as Python computes them.                        *)
(* Similarities are integers in hundredths (0.15 is 15, 0.6 is 60).        *)
(* The standard deviation is kept exactly, as the pair (var_num, var_den)  *)
(* of its variance: it stands for sqrt(var_num / var_den).                 *)
(***************************************************************************)
EXTENDS Integers, Sequences, FiniteSets, TLC

(* ------------------------------ bounds --------------------------------- *)
MaxTokens == 2
MaxStatLen == 3
MaxRecWords == 2
NumThreads == 2
MaxDim == 2
MaxSentence == 13

(* --------------------------- Python strings ---------------------------- *)
LowerOf ==
  [c \in {"A", "B", "C", "D", "E", "F", "Z"} |->
     CASE c = "A" -> "a" [] c = "B" -> "b" [] c = "C" -> "c" [] c = "D" -> "d"
       [] c = "E" -> "e" [] c = "F" -> "f" [] c = "Z" -> "z"]

UpperOf ==
  [c \in {"a", "b", "c", "d", "e", "f", "z"} |->
     CASE c = "a" -> "A" [] c = "b" -> "B" [] c = "c" -> "C" [] c = "d" -> "D"
       [] c = "e" -> "E" [] c = "f" -> "F" [] c = "z" -> "Z"]

LowerChar(c) == IF c \in DOMAIN LowerOf THEN LowerOf[c] ELSE c

UpperChar(c) == IF c \in DOMAIN UpperOf THEN UpperOf[c] ELSE c

\* str.lower()
lower(s) == [i \in 1..Len(s) |-> LowerChar(s[i])]

\* str.capitalize(): first character upper-cased, the rest lower-cased
capitalize(s) == [i \in 1..Len(s) |-> IF i = 1 THEN UpperChar(s[i]) ELSE LowerChar(s[i])]

\* str.startswith(prefix)
startswith(s, prefix) ==
  /\ Len(s) >= Len(prefix)
  /\ SubSeq(s, 1, Len(prefix)) = prefix

\* " ".join(list)
RECURSIVE join(_)
join(list) ==
  IF Len(list) = 0 THEN << >>
  ELSE IF Len(list) = 1 THEN list[1]
  ELSE list[1] \o <<" ">> \o join(Tail(list))

\* the sequences over S of length 0..n
SeqUpTo(S, n) == UNION {[1..k -> S] : k \in 0..n}

RECURSIVE SeqSum(_)
SeqSum(s) == IF Len(s) = 0 THEN 0 ELSE s[1] + SeqSum(Tail(s))

SeqMax(s) == CHOOSE x \in {s[i] : i \in 1..Len(s)} : \A j \in 1..Len(s) : s[j] <= x

SeqMin(s) == CHOOSE x \in {s[i] : i \in 1..Len(s)} : \A j \in 1..Len(s) : x <= s[j]

\* list.index(x): the first position of x, 0-based
index(s, x) == (CHOOSE i \in 1..Len(s) : s[i] = x /\ \A j \in 1..(i - 1) : s[j] # x) - 1

(* ------------------------ the inputs of a request ---------------------- *)
Vocabulary ==
  { <<"A", "B">>, <<"d">>, <<"e">>, <<"c">>, <<"f">>, <<"z">> }

NOUN == <<"N", "O", "U", "N">>
ADVB == <<"A", "D", "V", "B">>
ADP  == <<"A", "D", "P">>
NoTag == << >>

\* the (word, tag) pairs the tagger may hand over
PosItems ==
  { << <<"A", "B">>, NoTag >>,
    << <<"A", "B">>, ADP >>,
    << <<"a", "b">>, ADP >>,
    << <<"A", "b">>, NOUN >>,
    << <<"a", "b">>, ADVB >>,
    << <<"d">>, NOUN >>,
    << <<"e">>, NOUN >>,
    << <<"c">>, NOUN >>,
    << <<"f">>, NOUN >>,
    << <<"z">>, NOUN >> }

\* the sentences of a request
Sentences == SeqUpTo(Vocabulary, MaxTokens)

\* the tagger goes through the sentence word by word: each token gets at most
\* one pair, whose word is the token in some case
PosTagLists(toks) ==
  LET options(i) == {it \in PosItems : lower(it[1]) = lower(toks[i])} \cup {<< >>}
      choices == {f \in [1..Len(toks) -> PosItems \cup {<< >>}] :
                    \A i \in 1..Len(toks) : f[i] \in options(i)}
  IN  {SelectSeq(f, LAMBDA it : it # << >>) : f \in choices}

\* what named-entity recognition may return for the sentence
NerLists ==
  { << >>,
    << << <<"a", "b", " ", "d">>, "PERSON" >>, << <<"A", "b">>, "ORG" >> >> }

Thresholds == {15, 10}

\* the cosine similarities the embedding provider may produce for the
\* definitions of one token, in hundredths
SimilarityVectors ==
  { <<50, 52>>, <<50, 62>>, <<85, 30>>,
    <<50, 50, 50>>, <<50, 62, 50>>, <<-30, -10, -30>>, <<62, 62, 62>> }

\* the lists calculate_similarity_statistics is applied to on its own
StatValues == {-30, 0, 50, 85}

StatLists == SeqUpTo(StatValues, MaxStatLen)

(* --------------------------- sense inventory --------------------------- *)
\* wordnet.synsets(literal=...): the candidate sense ids of a literal
wordnet_synsets(literal) ==
  CASE literal = <<"a", "b">> -> <<"ab1", "ab2">>
    [] literal = <<"d">> -> <<"d1", "d2", "d3", "d4", "d5", "d6">>
    [] literal = <<"e">> -> <<"e1", "e2">>
    [] literal = <<"c">> -> <<"c1">>
    [] literal = <<"f">> -> <<"f1", "f9">>
    [] OTHER -> << >>

Synset(definition, pos, literals) ==
  [definition |-> definition, pos |-> pos, literals |-> literals]

\* the synsets the inventory holds; "f9" is an id it does not know
wordnet_synset ==
  [id \in {"ab1", "ab2", "d1", "d2", "d3", "d4", "d5", "d6", "e1", "e2", "c1", "f1"} |->
     CASE id = "ab1" -> Synset(<<"x">>, "Pos.NOUN", << <<"a", "b">>, <<"b", "a">> >>)
       [] id = "ab2" -> Synset(<< >>, "Pos.NOUN", << <<"A", "b">>, <<"c">> >>)
       [] id = "d1" -> Synset(<< >>, "Pos.NOUN", << >>)
       [] id = "d2" -> Synset(<<"y">>, "Pos.NOUN", << <<"d">> >>)
       [] id = "d3" -> Synset(<< >>, "Pos.VERB", << >>)
       [] id = "d4" -> Synset(<< >>, "Pos.NOUN", << <<"d">>, <<"z">> >>)
       [] id = "d5" -> Synset(<<"q">>, "Pos.NOUN", << >>)
       [] id = "d6" -> Synset(<< >>, "Pos.NOUN", << >>)
       [] id = "e1" -> Synset(<<"w">>, "Pos.NOUN", << <<"e">> >>)
       [] id = "e2" -> Synset(<< >>, "Pos.NOUN", << >>)
       [] id = "c1" -> Synset(<<"v">>, "Pos.NOUN", << <<"c">> >>)
       [] id = "f1" -> Synset(<<"u">>, "Pos.NOUN", << <<"f">> >>)]

\* get_synsets_for_word
get_synsets_for_word(word) == wordnet_synsets(lower(word))

\* wordnet.synset(id) fails for an id the inventory does not hold
synset_known(synset_id) == synset_id \in DOMAIN wordnet_synset

\* get_synset_info
get_synset_info(synset_id) ==
  [id |-> synset_id,
   definition |-> wordnet_synset[synset_id].definition,
   pos |-> wordnet_synset[synset_id].pos,
   literals |-> wordnet_synset[synset_id].literals]

(* ------------------------------ ner_utils ------------------------------ *)
\* is_named_entity comparing the token as it is written
is_named_entity_exact_case(token, ner_list) ==
  \E k \in 1..Len(ner_list) : token = lower(ner_list[k][1])

\* is_named_entity
is_named_entity(token, ner_list) ==
  LET token_lower == lower(token)
  IN  \E k \in 1..Len(ner_list) : token_lower = lower(ner_list[k][1])

(* ------------------------------ similarity ----------------------------- *)
\* the context window of calculate_context_embedding
window_size == 5

\* the context text with the window ending one token early
context_text_short(toks, idx) ==
  LET start_idx == IF idx - window_size > 0 THEN idx - window_size ELSE 0
      end_idx == IF Len(toks) < idx + window_size THEN Len(toks) ELSE idx + window_size
  IN  join(SubSeq(toks, start_idx + 1, end_idx))

\* calculate_context_embedding: the text that is embedded for the token
context_text(toks, idx) ==
  LET start_idx == IF idx - window_size > 0 THEN idx - window_size ELSE 0
      end_idx == IF Len(toks) < idx + window_size + 1 THEN Len(toks) ELSE idx + window_size + 1
  IN  join(SubSeq(toks, start_idx + 1, end_idx))

\* calculate_definition_embeddings embedding the empty definitions too
calculate_definition_embeddings_keep_empty(definitions) == definitions

\* calculate_definition_embeddings: one embedding per non-empty definition,
\* in order; an embedding is known here by the text it embeds
calculate_definition_embeddings(definitions) ==
  SelectSeq(definitions, LAMBDA d : d # << >>)


\* calculate_similarity_statistics with the deviation taken about zero
\* instead of the mean
calculate_similarity_statistics_about_zero(sims) ==
  IF sims = << >>
  THEN [max_sim |-> 0, min_sim |-> 0, sim_diff |-> 0,
        sim_std |-> [var_num |-> 0, var_den |-> 1]]
  ELSE LET set == {sims[i] : i \in 1..Len(sims)}
           mx == CHOOSE x \in set : \A y \in set : y <= x
           mn == CHOOSE x \in set : \A y \in set : x <= y
       IN  [max_sim |-> mx, min_sim |-> mn, sim_diff |-> mx - mn,
            sim_std |-> [var_num |-> SeqSum([i \in 1..Len(sims) |-> sims[i] * sims[i]]),
                         var_den |-> Len(sims)]]
\* calculate_similarity_statistics with the minimum started at 0
calculate_similarity_statistics_min_from_zero(sims) ==
  IF sims = << >>
  THEN [max_sim |-> 0, min_sim |-> 0, sim_diff |-> 0, sim_std |-> [var_num |-> 0, var_den |-> 1]]
  ELSE LET max_sim == SeqMax(sims)
           min_sim == SeqMin(<<0>> \o sims)
           n == Len(sims)
           sum == SeqSum(sims)
           dev2 == [i \in 1..n |-> (n * sims[i] - sum) * (n * sims[i] - sum)]
       IN  [max_sim |-> max_sim,
            min_sim |-> min_sim,
            sim_diff |-> max_sim - min_sim,
            sim_std |-> [var_num |-> SeqSum(dev2), var_den |-> n * n * n]]

\* calculate_similarity_statistics dividing by n - 1 (the sample variance)
calculate_similarity_statistics_sample(sims) ==
  IF sims = << >>
  THEN [max_sim |-> 0, min_sim |-> 0, sim_diff |-> 0, sim_std |-> [var_num |-> 0, var_den |-> 1]]
  ELSE LET max_sim == SeqMax(sims)
           min_sim == SeqMin(sims)
           n == Len(sims)
           sum == SeqSum(sims)
           dev2 == [i \in 1..n |-> (n * sims[i] - sum) * (n * sims[i] - sum)]
       IN  [max_sim |-> max_sim,
            min_sim |-> min_sim,
            sim_diff |-> max_sim - min_sim,
            sim_std |-> [var_num |-> SeqSum(dev2), var_den |-> n * n * (n - 1)]]

\* calculate_similarity_statistics. sim_mean is sum / n, so a deviation
\* s - sim_mean is (n * s - sum) / n, and sim_variance, the sum of the squared
\* deviations divided by n, is SeqSum(dev2) / (n * n * n)
calculate_similarity_statistics(sims) ==
  IF sims = << >>
  THEN [max_sim |-> 0, min_sim |-> 0, sim_diff |-> 0, sim_std |-> [var_num |-> 0, var_den |-> 1]]
  ELSE LET max_sim == SeqMax(sims)
           min_sim == SeqMin(sims)
           n == Len(sims)
           sum == SeqSum(sims)
           dev2 == [i \in 1..n |-> (n * sims[i] - sum) * (n * sims[i] - sum)]
       IN  [max_sim |-> max_sim,
            min_sim |-> min_sim,
            sim_diff |-> max_sim - min_sim,
            sim_std |-> [var_num |-> SeqSum(dev2), var_den |-> n * n * n]]

\* sim_std > threshold, for sim_std = sqrt(var_num / var_den)
std_gt(std, threshold) ==
  \/ threshold < 0
  \/ std.var_num > threshold * threshold * std.var_den

\* is_ambiguous taking a low maximum for ambiguity whatever the synset count
is_ambiguous_low_max_alone(sims, synset_count, threshold) ==
  IF sims = << >> \/ Len(sims) <= 1
  THEN FALSE
  ELSE LET st == calculate_similarity_statistics(sims)
       IN  \/ st.sim_diff > threshold
           \/ std_gt(st.sim_std, threshold)
           \/ st.max_sim < 60
           \/ (synset_count > 5 /\ st.sim_diff > 10)

(* ------------------------------- detector ------------------------------ *)
\* is_ambiguous with the third disjunct taking two senses as several
is_ambiguous_two_senses(sims, synset_count, threshold) ==
  IF sims = << >> \/ Len(sims) <= 1
  THEN FALSE
  ELSE LET st == calculate_similarity_statistics(sims)
       IN  \/ st.sim_diff > threshold
           \/ std_gt(st.sim_std, threshold)
           \/ (st.max_sim < 60 /\ synset_count >= 2)
           \/ (synset_count > 5 /\ st.sim_diff > 10)

\* AmbiguityDetector.is_ambiguous
is_ambiguous(sims, synset_count, threshold) ==
  IF sims = << >> \/ Len(sims) <= 1
  THEN FALSE
  ELSE LET st == calculate_similarity_statistics(sims)
       IN  \/ st.sim_diff > threshold
           \/ std_gt(st.sim_std, threshold)
           \/ (st.max_sim < 60 /\ synset_count > 2)
           \/ (synset_count > 5 /\ st.sim_diff > 10)

\* AmbiguityDetector.create_meaning
create_meaning(synset, confidence) ==
  [id |-> synset.id,
   definition |-> synset.definition,
   pos |-> synset.pos,
   synonyms |-> synset.literals,
   confidence |-> confidence]

\* create_ambiguous_word recording the lowercase form that was looked up
create_ambiguous_word_lowercased(token, p, idx, potential_meanings, best_meaning_idx, ambiguity_score) ==
  LET best_meaning ==
        IF /\ potential_meanings # << >>
           /\ 0 <= best_meaning_idx
           /\ best_meaning_idx < Len(potential_meanings)
        THEN << potential_meanings[best_meaning_idx + 1] >>
        ELSE << >>
  IN  [word |-> lower(token),
       pos |-> p,
       position |-> idx,
       potential_meanings |-> potential_meanings,
       best_meaning |-> best_meaning,
       ambiguity_score |-> ambiguity_score]

\* create_ambiguous_word recording a 1-based position
create_ambiguous_word_one_based(token, p, idx, potential_meanings, best_meaning_idx, ambiguity_score) ==
  LET best_meaning ==
        IF /\ potential_meanings # << >>
           /\ 0 <= best_meaning_idx
           /\ best_meaning_idx < Len(potential_meanings)
        THEN << potential_meanings[best_meaning_idx + 1] >>
        ELSE << >>
  IN  [word |-> token,
       pos |-> p,
       position |-> idx + 1,
       potential_meanings |-> potential_meanings,
       best_meaning |-> best_meaning,
       ambiguity_score |-> ambiguity_score]

\* AmbiguityDetector.create_ambiguous_word; best_meaning is << >> for None
create_ambiguous_word(token, p, idx, potential_meanings, best_meaning_idx, ambiguity_score) ==
  LET best_meaning ==
        IF /\ potential_meanings # << >>
           /\ 0 <= best_meaning_idx
           /\ best_meaning_idx < Len(potential_meanings)
        THEN << potential_meanings[best_meaning_idx + 1] >>
        ELSE << >>
  IN  [word |-> token,
       pos |-> p,
       position |-> idx,
       potential_meanings |-> potential_meanings,
       best_meaning |-> best_meaning,
       ambiguity_score |-> ambiguity_score]

\* _create_token_pos_map keeping the first pair of a word
create_token_pos_map_first_pair(tags) ==
  LET pairs == {k \in 1..Len(tags) : Len(tags[k]) = 2}
      words == {tags[k][1] : k \in pairs}
      first(w) == CHOOSE k \in pairs : tags[k][1] = w /\ \A j \in pairs : tags[j][1] = w => k <= j
  IN  [w \in words |-> tags[first(w)][2]]

\* AmbiguityDetector._create_token_pos_map: the last pair of a word wins
create_token_pos_map(tags) ==
  LET pairs == {k \in 1..Len(tags) : Len(tags[k]) = 2}
      words == {tags[k][1] : k \in pairs}
      last(w) == CHOOSE k \in pairs : tags[k][1] = w /\ \A j \in pairs : tags[j][1] = w => j <= k
  IN  [w \in words |-> tags[last(w)][2]]

\* _get_pos_tag trying the capitalized token before the lowercased one
get_pos_tag_capitalized_first(token, map) ==
  LET pos1 == IF token \in DOMAIN map THEN map[token] ELSE << >>
      pos2 == IF pos1 = << >> /\ capitalize(token) \in DOMAIN map THEN map[capitalize(token)] ELSE pos1
      pos3 == IF pos2 = << >> /\ lower(token) \in DOMAIN map THEN map[lower(token)] ELSE pos2
  IN  pos3

\* AmbiguityDetector._get_pos_tag
get_pos_tag(token, map) ==
  LET pos1 == IF token \in DOMAIN map THEN map[token] ELSE << >>
      pos2 == IF pos1 = << >> /\ lower(token) \in DOMAIN map THEN map[lower(token)] ELSE pos1
      pos3 == IF pos2 = << >> /\ capitalize(token) \in DOMAIN map THEN map[capitalize(token)] ELSE pos2
  IN  pos3

\* AmbiguityDetector._is_content_word
content_word_prefixes ==
  { <<"N", "O", "U", "N">>, <<"V", "E", "R", "B">>, <<"A", "D", "J">>, <<"A", "D", "V">> }

\* _is_content_word letting a token without a tag through
is_content_word_untagged(p) ==
  \/ p = << >>
  \/ \E prefix \in { <<"N", "O", "U", "N">>, <<"V", "E", "R", "B">>, <<"A", "D", "J">>, <<"A", "D", "V">> } :
       startswith(p, prefix)

\* _is_content_word taking every tag that starts with AD for ADJ or ADV
is_content_word_ad(p) ==
  \E prefix \in { <<"N", "O", "U", "N">>, <<"V", "E", "R", "B">>, <<"A", "D">> } :
    startswith(p, prefix)

is_content_word(p) == \E prefix \in content_word_prefixes : startswith(p, prefix)

(* -------------------------------- state -------------------------------- *)
VARIABLES
  similarity_threshold,  \* AmbiguityDetector.similarity_threshold
  pc,                    \* "idle", "loop", "returned" or "raised"
  tokens,                \* the arguments of detect_ambiguities
  pos_tags,
  ner_entities,          \* the result of get_named_entities
  token_pos_map,
  token_index,           \* 0-based index of the token the loop is at
  pos,                   \* locals of the loop body, kept from one token to the next
  synset_ids,
  similarities,
  ambiguous_words,       \* the list that is returned
  error,                 \* the exception the call ended with, "" for none
  outcome,               \* the branch the last iteration took
  sense_lookups,         \* the token indices get_synsets_for_word was called for
  embed_calls,           \* the get_embedding calls made, with the token they are for
  stat_input,            \* the argument of a call of calculate_similarity_statistics
  stat_result,           \* << >> before the call, then the tuple it returned
  rec_pc,                \* "ready" when the recommender has been handed rec_words
  rec_words,             \* the AmbiguousWord list the recommender is called with
  recommendations,       \* the list get_recommendations returned
  rec_outcome,           \* "none" or "returned", of get_recommendations
  sel_word,              \* 1-based place in rec_words of select_best_meaning's argument
  sel_similarities,      \* the cosine similarities of that call, in loop order
  selected,              \* what select_best_meaning returned, << >> for None
  sel_outcome,           \* "none", "returned" or "raised", of select_best_meaning
  models,                \* TransformerModelManager._models[model_name], << >> if absent
  tokenizers,            \* TransformerModelManager._tokenizers[model_name]
  model_loads,           \* the AutoModel.from_pretrained calls made
  tokenizer_loads,       \* the AutoTokenizer.from_pretrained calls made
  thread_op,             \* the manager method each caller runs, "" before it starts
  thread_pc,             \* where each caller is in it
  thread_model,          \* the model instance each caller got, 0 for none
  thread_tokenizer,      \* the tokenizer instance each caller got, 0 for none
  cos_context,           \* the context embedding of a similarity computation
  cos_definitions,       \* the definition embeddings it is compared with
  cos_caller,            \* the function that made the computation, "" before it
  cos_outcome,           \* "none", "returned" or "raised"
  cos_result,            \* the similarities that were returned
  ctx_tokens,            \* the tokens of a direct call of calculate_context_embedding
  ctx_index,             \* its token_index
  ctx_result,            \* << >> before the call, then the context text it embedded
  req_entry,             \* "disambiguate_text" or "process_text": what was called, "" before
  req_pc,                \* the step the request is at
  req_calls,             \* the service, preprocessing and detection calls made, in order
  req_tokens,            \* analysis["tokens"]
  req_pos_tags,          \* analysis["pos_tags"]
  req_keys,              \* the keys of preprocessed_data
  req_error,             \* the exception that ended the call, "" for none
  req_status,            \* the HTTP status of the response, 0 for none
  req_result,            \* << >>, or the ResultDict process_text returned
  enr_pc,                \* the step enrich_top_meanings is at
  enr_words,             \* result_dict["ambiguous_words"]
  enr_batch_size,        \* batch_size
  all_meanings_to_enrich, \* the meanings collected for enrichment
  enr_i,                 \* the loop variable i of the batch loop
  enr_failures,          \* the batches that failed so far
  tag_tokens,            \* tokens
  tag_pos_tags,          \* pos_tags
  tag_map,               \* << >>, or the token_pos_map built from pos_tags
  tag_resolved           \* the tags resolved for the tokens so far, in order

\* the state of detect_ambiguities
detector_vars ==
  << similarity_threshold, pc, tokens, pos_tags, ner_entities, token_pos_map,
     token_index, pos, synset_ids, similarities, ambiguous_words, error, outcome,
     sense_lookups, embed_calls >>

\* the state of a direct call of calculate_similarity_statistics
stat_vars == << stat_input, stat_result >>

\* the state of the calls of the recommender
rec_vars ==
  << rec_pc, rec_words, recommendations, rec_outcome,
     sel_word, sel_similarities, selected, sel_outcome >>

\* the state of the model manager and of its callers
mgr_vars ==
  << models, tokenizers, model_loads, tokenizer_loads,
     thread_op, thread_pc, thread_model, thread_tokenizer >>

\* the state of a direct similarity computation
cos_vars == << cos_context, cos_definitions, cos_caller, cos_outcome, cos_result >>

\* the state of a direct call of calculate_context_embedding
ctx_vars == << ctx_tokens, ctx_index, ctx_result >>

\* the state of a /api/disambiguate request or process_text call
req_vars == << req_entry, req_pc, req_calls, req_tokens, req_pos_tags, req_keys, req_error, req_status, req_result >>

\* the state of one enrich_top_meanings call
enr_vars == << enr_pc, enr_words, enr_batch_size, all_meanings_to_enrich, enr_i, enr_failures >>

\* the state of the POS lookup of one sentence
tag_vars == << tag_tokens, tag_pos_tags, tag_map, tag_resolved >>

\* the state of the operations that are called on their own
side_vars == << cos_vars, ctx_vars, req_vars, enr_vars, tag_vars >>

vars == << detector_vars, stat_vars, rec_vars, mgr_vars, side_vars >>

\* what detect_ambiguities does not touch
outside_detector == << stat_vars, rec_vars, mgr_vars, side_vars >>

inputs == << similarity_threshold, tokens, pos_tags, ner_entities, token_pos_map >>

\* AmbiguityDetector.__init__
DetectorInit ==
  /\ similarity_threshold \in Thresholds
  /\ pc = "idle"
  /\ tokens = << >>
  /\ pos_tags = << >>
  /\ ner_entities = << >>
  /\ token_pos_map = << >>
  /\ token_index = 0
  /\ pos = << >>
  /\ synset_ids = << >>
  /\ similarities = << >>
  /\ ambiguous_words = << >>
  /\ error = ""
  /\ outcome = "none"
  /\ sense_lookups = {}
  /\ embed_calls = {}

\* no direct call of calculate_similarity_statistics is under way
StatAtRest == stat_input = << >> /\ stat_result = << >>

\* DisambiguationRecommender.__init__: no call of the recommender is under way
RecAtRest ==
  /\ rec_pc = "idle"
  /\ rec_words = << >>
  /\ recommendations = << >>
  /\ rec_outcome = "none"
  /\ sel_word = 0
  /\ sel_similarities = << >>
  /\ selected = << >>
  /\ sel_outcome = "none"

\* TransformerModelManager: nothing is loaded and nobody is calling
MgrAtRest ==
  /\ models = << >>
  /\ tokenizers = << >>
  /\ model_loads = 0
  /\ tokenizer_loads = 0
  /\ thread_op = << >>
  /\ thread_pc = << >>
  /\ thread_model = << >>
  /\ thread_tokenizer = << >>

\* no similarity computation is under way
CosAtRest ==
  /\ cos_context = << >>
  /\ cos_definitions = << >>
  /\ cos_caller = ""
  /\ cos_outcome = "none"
  /\ cos_result = << >>

\* calculate_context_embedding is not being called
CtxAtRest ==
  /\ ctx_tokens = << >>
  /\ ctx_index = 0
  /\ ctx_result = << >>

\* no request is being handled
ReqAtRest ==
  /\ req_entry = ""
  /\ req_pc = "idle"
  /\ req_calls = << >>
  /\ req_tokens = << >>
  /\ req_pos_tags = << >>
  /\ req_keys = {}
  /\ req_error = ""
  /\ req_status = 0
  /\ req_result = << >>

\* enrich_top_meanings is not running
EnrAtRest ==
  /\ enr_pc = "idle"
  /\ enr_words = << >>
  /\ enr_batch_size = 1
  /\ all_meanings_to_enrich = << >>
  /\ enr_i = 0
  /\ enr_failures = 0

\* no POS tags are being resolved
TagAtRest ==
  /\ tag_tokens = << >>
  /\ tag_pos_tags = << >>
  /\ tag_map = << >>
  /\ tag_resolved = << >>

\* none of the operations that are called on their own is under way
SideAtRest == CosAtRest /\ CtxAtRest /\ ReqAtRest /\ EnrAtRest /\ TagAtRest

Init == DetectorInit /\ StatAtRest /\ RecAtRest /\ MgrAtRest /\ SideAtRest

\* detect_ambiguities, up to the loop
Call ==
  /\ pc = "idle"
  /\ \E toks \in Sentences :
       \E tags \in PosTagLists(toks) :
         \E ents \in NerLists :
           /\ tokens' = toks
           /\ pos_tags' = tags
           /\ ner_entities' = ents
           /\ token_pos_map' = create_token_pos_map(tags)
  /\ pc' = "loop"
  /\ UNCHANGED << outside_detector, similarity_threshold, token_index, pos, synset_ids, similarities,
                  ambiguous_words, error, outcome, sense_lookups, embed_calls >>

\* the state of one iteration of the loop, as far as the iteration gets
InLoop == pc = "loop" /\ token_index < Len(tokens)

token == tokens[token_index + 1]

cur_pos == get_pos_tag(token, token_pos_map)

cur_synset_ids == get_synsets_for_word(lower(token))

cur_synsets == [k \in 1..Len(cur_synset_ids) |-> get_synset_info(cur_synset_ids[k])]

cur_definitions ==
  [k \in 1..Len(cur_synsets) |->
     IF cur_synsets[k].definition # << >>
     THEN cur_synsets[k].definition
     ELSE join(cur_synsets[k].literals)]

cur_definition_embeddings == calculate_definition_embeddings(cur_definitions)

\* the iteration gets past the named-entity and content-word filters
PastFilters == InLoop /\ ~is_named_entity(token, ner_entities) /\ is_content_word(cur_pos)

\* the iteration gets past the synset count and has every synset's information
PastSynsets ==
  /\ PastFilters
  /\ ~(Len(cur_synset_ids) <= 1)
  /\ \A k \in 1..Len(cur_synset_ids) : synset_known(cur_synset_ids[k])

\* the get_embedding calls for the first n definitions that are not empty
definition_calls(n) ==
  {[token_index |-> token_index, kind |-> "definition", text |-> cur_definition_embeddings[k]] :
     k \in 1..n}

context_call ==
  [token_index |-> token_index, kind |-> "context", text |-> context_text(tokens, token_index)]

\* the iteration gets to calculate_similarities: every embedding was obtained
PastEmbeddings == PastSynsets /\ ~(Len(cur_definition_embeddings) <= 1)

\* line 146: continue
SkipNamedEntity ==
  /\ InLoop
  /\ is_named_entity(token, ner_entities)
  /\ token_index' = token_index + 1
  /\ outcome' = "named_entity"
  /\ UNCHANGED << outside_detector, inputs, pc, pos, synset_ids, similarities, ambiguous_words, error,
                  sense_lookups, embed_calls >>

\* line 153: continue
SkipNonContent ==
  /\ InLoop
  /\ ~is_named_entity(token, ner_entities)
  /\ ~is_content_word(cur_pos)
  /\ pos' = cur_pos
  /\ token_index' = token_index + 1
  /\ outcome' = "not_content"
  /\ UNCHANGED << outside_detector, inputs, pc, synset_ids, similarities, ambiguous_words, error,
                  sense_lookups, embed_calls >>

\* line 162: continue
SkipFewSynsets ==
  /\ PastFilters
  /\ Len(cur_synset_ids) <= 1
  /\ pos' = cur_pos
  /\ synset_ids' = cur_synset_ids
  /\ sense_lookups' = sense_lookups \cup {token_index}
  /\ token_index' = token_index + 1
  /\ outcome' = "few_synsets"
  /\ UNCHANGED << outside_detector, inputs, pc, similarities, ambiguous_words, error, embed_calls >>

\* line 166: get_synset_info raises for an id the inventory does not hold
RaiseNotFound ==
  /\ PastFilters
  /\ ~(Len(cur_synset_ids) <= 1)
  /\ \E k \in 1..Len(cur_synset_ids) : ~synset_known(cur_synset_ids[k])
  /\ pos' = cur_pos
  /\ synset_ids' = cur_synset_ids
  /\ sense_lookups' = sense_lookups \cup {token_index}
  /\ pc' = "raised"
  /\ error' = "NotFound"
  /\ outcome' = "raised"
  /\ UNCHANGED << outside_detector, inputs, token_index, similarities, ambiguous_words, embed_calls >>

\* line 172: get_embedding raises for one of the definitions
RaiseDefinitionEmbedding ==
  /\ PastSynsets
  /\ \E n \in 1..Len(cur_definition_embeddings) :
       embed_calls' = embed_calls \cup definition_calls(n)
  /\ pos' = cur_pos
  /\ synset_ids' = cur_synset_ids
  /\ sense_lookups' = sense_lookups \cup {token_index}
  /\ pc' = "raised"
  /\ error' = "EmbeddingFailed"
  /\ outcome' = "raised"
  /\ UNCHANGED << outside_detector, inputs, token_index, similarities, ambiguous_words >>

\* line 175: continue
SkipFewEmbeddings ==
  /\ PastSynsets
  /\ Len(cur_definition_embeddings) <= 1
  /\ pos' = cur_pos
  /\ synset_ids' = cur_synset_ids
  /\ sense_lookups' = sense_lookups \cup {token_index}
  /\ embed_calls' = embed_calls \cup definition_calls(Len(cur_definition_embeddings))
  /\ token_index' = token_index + 1
  /\ outcome' = "few_embeddings"
  /\ UNCHANGED << outside_detector, inputs, pc, similarities, ambiguous_words, error >>

\* line 179: get_embedding raises for the context
RaiseContextEmbedding ==
  /\ PastEmbeddings
  /\ pos' = cur_pos
  /\ synset_ids' = cur_synset_ids
  /\ sense_lookups' = sense_lookups \cup {token_index}
  /\ embed_calls' = embed_calls \cup definition_calls(Len(cur_definition_embeddings))
                      \cup {context_call}
  /\ pc' = "raised"
  /\ error' = "EmbeddingFailed"
  /\ outcome' = "raised"
  /\ UNCHANGED << outside_detector, inputs, token_index, similarities, ambiguous_words >>

\* lines 192-201: the record of an ambiguous token
build_ambiguous_word(tok, p, idx, synsets, sims) ==
  LET best_meaning_idx == IF sims # << >> THEN index(sims, SeqMax(sims)) ELSE 0
      potential_meanings ==
        [k \in 1..Len(synsets) |->
           create_meaning(synsets[k], IF k - 1 < Len(sims) THEN sims[k] ELSE 0)]
      sim_diff == calculate_similarity_statistics(sims).sim_diff
  IN  create_ambiguous_word(tok, p, idx, potential_meanings, best_meaning_idx, sim_diff)

\* lines 179-203 with every embedding obtained: sims is what
\* calculate_similarities returns for the embeddings of this token
Score ==
  /\ PastEmbeddings
  /\ \E sims \in SimilarityVectors :
       /\ Len(sims) = Len(cur_definition_embeddings)
       /\ similarities' = sims
       /\ IF is_ambiguous(sims, Len(cur_synset_ids), similarity_threshold)
          THEN /\ ambiguous_words' =
                    Append(ambiguous_words,
                           build_ambiguous_word(token, cur_pos, token_index, cur_synsets, sims))
               /\ outcome' = "ambiguous"
          ELSE /\ ambiguous_words' = ambiguous_words
               /\ outcome' = "not_ambiguous"
  /\ pos' = cur_pos
  /\ synset_ids' = cur_synset_ids
  /\ sense_lookups' = sense_lookups \cup {token_index}
  /\ embed_calls' = embed_calls \cup definition_calls(Len(cur_definition_embeddings))
                      \cup {context_call}
  /\ token_index' = token_index + 1
  /\ UNCHANGED << outside_detector, inputs, pc, error >>

\* line 206: return ambiguous_words
Return ==
  /\ pc = "loop"
  /\ token_index = Len(tokens)
  /\ pc' = "returned"
  /\ UNCHANGED << outside_detector, inputs, token_index, pos, synset_ids, similarities, ambiguous_words,
                  error, outcome, sense_lookups, embed_calls >>

Next ==
  \/ Call
  \/ SkipNamedEntity
  \/ SkipNonContent
  \/ SkipFewSynsets
  \/ RaiseNotFound
  \/ RaiseDefinitionEmbedding
  \/ SkipFewEmbeddings
  \/ RaiseContextEmbedding
  \/ Score
  \/ Return

Spec == Init /\ [][Next]_vars

(* ------------------------- reading the state --------------------------- *)
\* the records of the returned list
Records == {ambiguous_words[k] : k \in 1..Len(ambiguous_words)}

\* the confidences of a record's potential_meanings
Confidences(w) == {w.potential_meanings[k].confidence : k \in 1..Len(w.potential_meanings)}

SetMax(S) == CHOOSE x \in S : \A y \in S : y <= x

SetMin(S) == CHOOSE x \in S : \A y \in S : x <= y

\* the token of the iteration that ran last: an iteration that raised did not advance
LastToken == IF pc = "raised" THEN tokens[token_index + 1] ELSE tokens[token_index]

\* the last iteration assigned pos
PosResolved == outcome \notin {"none", "named_entity"}

\* the last iteration got to the ambiguity decision
Decided == outcome \in {"ambiguous", "not_ambiguous"}

\* the last iteration appended a record for its token
EmittedLast ==
  /\ ambiguous_words # << >>
  /\ ambiguous_words[Len(ambiguous_words)].position = token_index - 1

(* C1: an embedding provider failure on one token never ends the call: the
   token is skipped and the call returns normally. *)
C1_EmbeddingFailureIsSkipped == error # "EmbeddingFailed"

(* C2: a NotFound of the sense inventory on one candidate of a token never
   ends the call: only that token is abandoned. *)
C2_NotFoundIsSkipped == error # "NotFound"

(* C3: every emitted record has at least 2 potential meanings, and its
   best_meaning has the maximum confidence of them. *)
C3_BestHasMaxConfidence ==
  \A w \in Records :
    /\ Len(w.potential_meanings) >= 2
    /\ w.best_meaning # << >>
    /\ w.best_meaning[1].confidence = SetMax(Confidences(w))

(* C4: the ambiguity_score of every emitted record is the maximum minus the
   minimum confidence of its potential meanings. *)
C4_ScoreIsConfidenceSpread ==
  \A w \in Records :
    w.ambiguity_score = SetMax(Confidences(w)) - SetMin(Confidences(w))

\* the rank of candidate k among the candidates whose definition text is not empty
TextRank(definitions, k) == Cardinality({j \in 1..k : definitions[j] # << >>})

\* the definition text of each candidate of a word, as the detector builds it
DefinitionTexts(word) ==
  LET ids == wordnet_synsets(lower(word))
  IN  [k \in 1..Len(ids) |->
         IF wordnet_synset[ids[k]].definition # << >>
         THEN wordnet_synset[ids[k]].definition
         ELSE join(wordnet_synset[ids[k]].literals)]

(* C5: the record just emitted has one Meaning per candidate, in candidate
   order, and the Meaning of a candidate with a definition text carries the
   similarity of that candidate's own definition. *)
C5_ConfidenceIsOwnSimilarity ==
  (outcome = "ambiguous") =>
    LET w == ambiguous_words[Len(ambiguous_words)]
        ids == wordnet_synsets(lower(w.word))
        texts == DefinitionTexts(w.word)
    IN  /\ Len(w.potential_meanings) = Len(ids)
        /\ \A k \in 1..Len(ids) :
             /\ w.potential_meanings[k].id = ids[k]
             /\ texts[k] # << >> =>
                  w.potential_meanings[k].confidence = similarities[TextRank(texts, k)]

\* the decision rule as the specification states it, on the similarities s,
\* the candidate count and the threshold t; dispersion > t is written with
\* the mean of the squares: n * sum s_i^2 - (sum s_i)^2 > n^2 t^2
RuleSpread(s) == SetMax({s[i] : i \in 1..Len(s)}) - SetMin({s[i] : i \in 1..Len(s)})

RuleDispersionAbove(s, t) ==
  LET n == Len(s)
      squares == [i \in 1..n |-> s[i] * s[i]]
  IN  t < 0 \/ n * SeqSum(squares) - SeqSum(s) * SeqSum(s) > n * n * t * t

Rule1(s, t) == RuleSpread(s) > t

Rule2(s, t) == RuleDispersionAbove(s, t)

Rule3(s, count) == SetMax({s[i] : i \in 1..Len(s)}) < 60 /\ count > 2

Rule4(s, count) == count > 5 /\ RuleSpread(s) > 10

(* C6: a token that passes the named-entity, content-word, candidate-count
   and embedding-count filters is emitted if and only if one of the four
   disjuncts of the decision rule holds for the configured threshold. *)
C6_EmittedIffRule ==
  Decided =>
    (EmittedLast <=>
       \/ Rule1(similarities, similarity_threshold)
       \/ Rule2(similarities, similarity_threshold)
       \/ Rule3(similarities, Len(wordnet_synsets(lower(LastToken))))
       \/ Rule4(similarities, Len(wordnet_synsets(lower(LastToken)))))

\* a token is emitted by the fourth disjunct alone
C6_Witness ==
  /\ Decided
  /\ EmittedLast
  /\ ~Rule1(similarities, similarity_threshold)
  /\ ~Rule3(similarities, Len(wordnet_synsets(lower(LastToken))))
  /\ Rule4(similarities, Len(wordnet_synsets(lower(LastToken))))

\* the token's lowercase form is the lowercase text of a named-entity span
MatchesEntity(word) == \E k \in 1..Len(ner_entities) : lower(word) = lower(ner_entities[k][1])

(* C7: no record of the output is for a token whose lowercase form equals
   the lowercase text of a named-entity span. *)
C7_NoNamedEntityEmitted ==
  \A w \in Records :
    /\ w.position < Len(tokens)
    /\ ~MatchesEntity(tokens[w.position + 1])

\* a named entity that is a content word with two candidate senses was
\* skipped, and the sentence is processed to its end
C7_Witness ==
  /\ pc = "returned"
  /\ \E i \in 1..Len(tokens) :
       /\ MatchesEntity(tokens[i])
       /\ tokens[i] # lower(tokens[i])
       /\ is_content_word(get_pos_tag(tokens[i], token_pos_map))
       /\ Len(wordnet_synsets(lower(tokens[i]))) >= 2

(* C8: no record of the output is for a token with fewer than 2 candidate
   sense ids for its lowercased form. *)
C8_NoFewSensesEmitted ==
  \A w \in Records :
    /\ w.position < Len(tokens)
    /\ Len(wordnet_synsets(lower(tokens[w.position + 1]))) >= 2

\* the call returned after the senses of a token with no candidate and of a
\* token with one candidate were looked up
C8_Witness ==
  /\ pc = "returned"
  /\ \E i \in 1..Len(tokens) :
       /\ (i - 1) \in sense_lookups
       /\ Len(wordnet_synsets(lower(tokens[i]))) = 0
  /\ \E i \in 1..Len(tokens) :
       /\ (i - 1) \in sense_lookups
       /\ Len(wordnet_synsets(lower(tokens[i]))) = 1

\* the tag starts with NOUN, VERB, ADJ or ADV
ContentTag(p) ==
  \/ Len(p) >= 4 /\ p[1] = "N" /\ p[2] = "O" /\ p[3] = "U" /\ p[4] = "N"
  \/ Len(p) >= 4 /\ p[1] = "V" /\ p[2] = "E" /\ p[3] = "R" /\ p[4] = "B"
  \/ Len(p) >= 3 /\ p[1] = "A" /\ p[2] = "D" /\ p[3] = "J"
  \/ Len(p) >= 3 /\ p[1] = "A" /\ p[2] = "D" /\ p[3] = "V"

(* C9: a token whose resolved POS tag does not start with NOUN, VERB, ADJ or
   ADV has no record in the output, and no sense lookup and no embedding
   call is made for it. *)
C9_NonContentUntouched ==
  \A i \in 1..Len(tokens) :
    ~ContentTag(get_pos_tag(tokens[i], token_pos_map)) =>
      /\ \A w \in Records : w.position # i - 1
      /\ (i - 1) \notin sense_lookups
      /\ \A c \in embed_calls : c.token_index # i - 1

\* a token with two candidate senses and a tag that is not a content tag
\* was passed over, and a token with no tag at all as well
C9_Witness ==
  /\ pc = "returned"
  /\ \E i \in 1..Len(tokens) :
       /\ ~MatchesEntity(tokens[i])
       /\ get_pos_tag(tokens[i], token_pos_map) = ADP
       /\ Len(wordnet_synsets(lower(tokens[i]))) >= 2
  /\ \E i \in 1..Len(tokens) :
       /\ ~MatchesEntity(tokens[i])
       /\ get_pos_tag(tokens[i], token_pos_map) = << >>
       /\ Len(wordnet_synsets(lower(tokens[i]))) >= 2

\* the words of posTags, and the tag posTags gives a word (its last pair)
TaggedWords == {pos_tags[k][1] : k \in 1..Len(pos_tags)}

TagOf(word) ==
  LET ks == {k \in 1..Len(pos_tags) : pos_tags[k][1] = word}
  IN  pos_tags[SetMax(ks)][2]

\* the three variants of a token, in the order they are tried
Variants(word) == << word, lower(word), capitalize(word) >>

\* the tag of the first variant that satisfies Has, << >> when none does
FirstTag(word, Has(_)) ==
  LET v == Variants(word)
  IN  IF Has(v[1]) THEN TagOf(v[1])
      ELSE IF Has(v[2]) THEN TagOf(v[2])
      ELSE IF Has(v[3]) THEN TagOf(v[3])
      ELSE << >>

IsTagged(word) == word \in TaggedWords

HasTag(word) == word \in TaggedWords /\ TagOf(word) # << >>

(* C10 as stated: the resolved tag is the tag of the first variant (exact,
   lowercased, capitalized) that is among posTags, and the token has no tag
   only when none of the three variants is among posTags. *)
C10_FirstPresentVariant ==
  PosResolved =>
    /\ pos = FirstTag(LastToken, IsTagged)
    /\ pos = << >> => \A k \in 1..3 : ~IsTagged(Variants(LastToken)[k])

(* C10 amended: the resolved tag is the tag of the first variant (exact,
   lowercased, capitalized) that posTags gives a non-empty tag, and the
   token has no tag exactly when posTags gives none of the three variants a
   non-empty tag. *)
C10_FirstNonEmptyVariant ==
  PosResolved =>
    /\ pos = FirstTag(LastToken, HasTag)
    /\ pos = << >> <=> \A k \in 1..3 : ~HasTag(Variants(LastToken)[k])

\* the exact token is among posTags with an empty tag, and the tag of the
\* lowercased or capitalized token was taken instead
C10_Witness ==
  /\ PosResolved
  /\ IsTagged(LastToken) /\ ~HasTag(LastToken)
  /\ pos # << >>
  /\ \/ pos = TagOf(lower(LastToken))
     \/ pos = TagOf(capitalize(LastToken))

(* ------------------- calculate_similarity_statistics ------------------- *)
\* the detector at rest, with the default threshold
DetectorAtRest == DetectorInit /\ similarity_threshold = 15

StatInit ==
  /\ DetectorAtRest
  /\ RecAtRest
  /\ MgrAtRest
  /\ SideAtRest
  /\ stat_input \in StatLists
  /\ stat_result = << >>

\* calculate_similarity_statistics(stat_input)
Statistics ==
  /\ stat_result = << >>
  /\ stat_result' = << calculate_similarity_statistics(stat_input) >>
  /\ UNCHANGED << stat_input, detector_vars, rec_vars, mgr_vars, side_vars >>

StatNext == Statistics

StatSpec == StatInit /\ [][StatNext]_vars

\* the values of the argument
StatSet == {stat_input[i] : i \in 1..Len(stat_input)}

(* C11: statistics returns (0, 0, 0, 0) for the empty list, (x, x, 0, 0) for
   the list [x], and the maximum, the minimum and their difference for
   every non-empty list. *)
C11_StatisticsOfShortLists ==
  stat_result # << >> =>
    LET r == stat_result[1]
    IN  /\ stat_input = << >> =>
             r.max_sim = 0 /\ r.min_sim = 0 /\ r.sim_diff = 0 /\ r.sim_std.var_num = 0
        /\ Len(stat_input) = 1 =>
             /\ r.max_sim = stat_input[1]
             /\ r.min_sim = stat_input[1]
             /\ r.sim_diff = 0
             /\ r.sim_std.var_num = 0
        /\ stat_input # << >> =>
             /\ r.max_sim = SetMax(StatSet)
             /\ r.min_sim = SetMin(StatSet)
             /\ r.sim_diff = SetMax(StatSet) - SetMin(StatSet)
        /\ r.sim_std.var_den > 0

\* the statistics of a one-element list [x], x > 0, were computed
C11_Witness ==
  /\ stat_result # << >>
  /\ Len(stat_input) = 1
  /\ stat_input[1] > 0

(* C12: for a non-empty list of n similarities, dispersion squared times n
   is the sum of the squared deviations from the mean, which is
   sum s_i^2 - (sum s_i)^2 / n. *)
C12_PopulationDeviation ==
  (stat_result # << >> /\ stat_input # << >>) =>
    LET std == stat_result[1].sim_std
        n == Len(stat_input)
        squares == [i \in 1..n |-> stat_input[i] * stat_input[i]]
        sum == SeqSum(stat_input)
    IN  /\ std.var_den > 0
        /\ std.var_num * n * n = (n * SeqSum(squares) - sum * sum) * std.var_den

\* the statistics of a list of three values that are not all equal
C12_Witness ==
  /\ stat_result # << >>
  /\ Len(stat_input) = 3
  /\ Cardinality(StatSet) >= 2
  /\ stat_result[1].sim_std.var_num > 0

(* ----------------------------- recommender ----------------------------- *)
no_definition == <<"No definition available">>

no_synonyms == <<"No direct synonyms available">>

\* sorted(meanings, key = confidence) without reverse = True
sorted_ascending(meanings) ==
  LET n == Len(meanings)
      place(i) ==
        Cardinality({j \in 1..n : meanings[j].confidence < meanings[i].confidence})
        + Cardinality({j \in 1..(i - 1) : meanings[j].confidence = meanings[i].confidence})
        + 1
  IN  [k \in 1..n |-> meanings[CHOOSE i \in 1..n : place(i) = k]]

\* sorted(meanings, key = confidence, reverse = True): the sort is stable, so
\* meanings of equal confidence keep the order they had
sorted_meanings(meanings) ==
  LET n == Len(meanings)
      place(i) ==
        Cardinality({j \in 1..n : meanings[j].confidence > meanings[i].confidence})
        + Cardinality({j \in 1..(i - 1) : meanings[j].confidence = meanings[i].confidence})
        + 1
  IN  [k \in 1..n |-> meanings[CHOOSE i \in 1..n : place(i) = k]]

\* sorted_meanings[:3]
top_meanings(meanings) ==
  LET sorted == sorted_meanings(meanings)
  IN  SubSeq(sorted, 1, IF Len(sorted) < 3 THEN Len(sorted) ELSE 3)

\* the synonym filter comparing without lower()
other_synonyms_exact_case(synonyms, word) ==
  SelectSeq(synonyms, LAMBDA syn : syn # word)

\* [s for s in synonyms if s.lower() != word.lower()]
other_synonyms(synonyms, word) ==
  SelectSeq(synonyms, LAMBDA syn : lower(syn) # lower(word))

\* the RecommendationOptionDict of one meaning
option(meaning, word) ==
  LET others == other_synonyms(meaning.synonyms, word)
  IN  [meaning |-> IF meaning.definition # << >> THEN meaning.definition ELSE no_definition,
       synonyms |-> IF others # << >> THEN others ELSE << no_synonyms >>]

\* the RecommendationDict of one word
recommendation(word_info) ==
  LET top == top_meanings(word_info.potential_meanings)
  IN  [word |-> word_info.word,
       pos |-> word_info.pos,
       recommendation |-> <<"The word '">> \o word_info.word \o <<"' is ambiguous.">>,
       options |-> [k \in 1..Len(top) |-> option(top[k], word_info.word)]]

\* get_recommendations skipping only the words without meanings
get_recommendations_keeps_single(words) ==
  LET kept == SelectSeq(words, LAMBDA w : ~(Len(w.potential_meanings) < 1))
  IN  [k \in 1..Len(kept) |-> recommendation(kept[k])]

\* DisambiguationRecommender.get_recommendations
get_recommendations(words) ==
  LET kept == SelectSeq(words, LAMBDA w : ~(Len(w.potential_meanings) <= 1))
  IN  [k \in 1..Len(kept) |-> recommendation(kept[k])]

\* the argument after a get_recommendations that sorted each list in place
after_get_recommendations_sort_in_place(words) ==
  [k \in 1..Len(words) |->
     [words[k] EXCEPT !.potential_meanings = sorted_meanings(@)]]

\* the argument after get_recommendations: sorted() builds a new list, the
\* slice another, and the loop only reads the records
after_get_recommendations(words) == words

\* meaning["definition"] or " ".join(meaning["synonyms"])
meaning_text(meaning) ==
  IF meaning.definition # << >> THEN meaning.definition ELSE join(meaning.synonyms)

\* the loop of select_best_meaning; sims are the similarities of the
\* meanings that have a text, in the order the loop meets them
RECURSIVE select_loop(_, _, _, _)
select_loop(meanings, sims, max_similarity, best_meaning) ==
  IF meanings = << >> THEN best_meaning
  ELSE IF meaning_text(Head(meanings)) = << >>
       THEN select_loop(Tail(meanings), sims, max_similarity, best_meaning)
       ELSE IF Head(sims) > max_similarity
            THEN select_loop(Tail(meanings), Tail(sims), Head(sims), << Head(meanings) >>)
            ELSE select_loop(Tail(meanings), Tail(sims), max_similarity, best_meaning)

\* DisambiguationRecommender.select_best_meaning, << >> for None
select_best_meaning(ambiguous_word, sims) ==
  LET meanings == ambiguous_word.potential_meanings
      best_meaning == select_loop(meanings, sims, -100, << >>)
  IN  IF best_meaning # << >> THEN best_meaning
      ELSE IF meanings # << >> THEN << meanings[1] >> ELSE << >>

\* how many definition embeddings a call of select_best_meaning asks for
text_count(ambiguous_word) ==
  Len(SelectSeq(ambiguous_word.potential_meanings, LAMBDA m : meaning_text(m) # << >>))

\* the cosine similarities a call can meet, in hundredths
SelValues == {-100, 30, 62}

SelSimilarities(n) == [1..n -> SelValues]

\* the records the recommender is called with
Meaning(id, definition, synonyms, confidence) ==
  [id |-> id, definition |-> definition, pos |-> "Pos.NOUN",
   synonyms |-> synonyms, confidence |-> confidence]

Word(word, p, position, potential_meanings) ==
  [word |-> word, pos |-> p, position |-> position,
   potential_meanings |-> potential_meanings,
   best_meaning |-> IF potential_meanings = << >> THEN << >> ELSE << potential_meanings[1] >>,
   ambiguity_score |-> 12]

RecWordSet ==
  LET m1 == Meaning("m1", <<"x">>, << <<"a", "b">>, <<"c">> >>, 50)
      m2 == Meaning("m2", << >>, << <<"A", "B">> >>, 62)
      m3 == Meaning("m3", << >>, << >>, 62)
      m4 == Meaning("m4", <<"y">>, << <<"d">> >>, 30)
      m5 == Meaning("m5", << >>, << >>, 30)
  IN  { Word(<<"z">>, NOUN, 0, << >>),
        Word(<<"e">>, NOUN, 1, << m4 >>),
        Word(<<"A", "b">>, NOUN, 0, << m1, m2 >>),
        Word(<<"A", "b">>, ADVB, 2, << m3, m1, m2 >>),
        Word(<<"d">>, NOUN, 1, << m4, m2, m3, m1 >>),
        Word(<<"c">>, ADVB, 3, << m3, m5 >>) }

RecInit ==
  /\ DetectorAtRest
  /\ StatAtRest
  /\ MgrAtRest
  /\ SideAtRest
  /\ rec_pc = "ready"
  /\ rec_words \in SeqUpTo(RecWordSet, MaxRecWords)
  /\ recommendations = << >>
  /\ rec_outcome = "none"
  /\ sel_word = 0
  /\ sel_similarities = << >>
  /\ selected = << >>
  /\ sel_outcome = "none"

\* recommender.get_recommendations(rec_words)
Recommend ==
  /\ rec_pc = "ready"
  /\ rec_outcome = "none"
  /\ recommendations' = get_recommendations(rec_words)
  /\ rec_outcome' = "returned"
  /\ rec_words' = after_get_recommendations(rec_words)
  /\ UNCHANGED << rec_pc, sel_word, sel_similarities, selected, sel_outcome,
                  detector_vars, stat_vars, mgr_vars, side_vars >>

\* recommender.select_best_meaning(rec_words[k], context)
SelectBestMeaning ==
  /\ rec_pc = "ready"
  /\ sel_outcome = "none"
  /\ \E k \in 1..Len(rec_words) :
       \E sims \in SelSimilarities(text_count(rec_words[k])) :
         /\ sel_word' = k
         /\ sel_similarities' = sims
         /\ selected' = select_best_meaning(rec_words[k], sims)
  /\ sel_outcome' = "returned"
  /\ UNCHANGED << rec_pc, rec_words, recommendations, rec_outcome,
                  detector_vars, stat_vars, mgr_vars, side_vars >>

\* select_best_meaning: get_embedding raises, for the context or for a text
RaiseSelectEmbedding ==
  /\ rec_pc = "ready"
  /\ sel_outcome = "none"
  /\ \E k \in 1..Len(rec_words) : sel_word' = k
  /\ sel_outcome' = "raised"
  /\ UNCHANGED << rec_pc, rec_words, recommendations, rec_outcome,
                  sel_similarities, selected,
                  detector_vars, stat_vars, mgr_vars, side_vars >>

RecNext ==
  \/ Recommend
  \/ SelectBestMeaning
  \/ RaiseSelectEmbedding

RecSpec == RecInit /\ [][RecNext]_vars

\* the places in rec_words of the words with at least two meanings
KeptPlaces == {i \in 1..Len(rec_words) : Len(rec_words[i].potential_meanings) >= 2}

\* the k-th of them
KeptPlace(k) == CHOOSE i \in KeptPlaces : Cardinality({j \in KeptPlaces : j < i}) = k - 1

\* the text an option shows for a meaning
DefinitionShown(m) == IF m.definition = << >> THEN no_definition ELSE m.definition

\* the options of recommendation k are a choice of `count' different meanings
\* of word w, from the highest confidence down, none left out above them
TopDescending(w, opts, count) ==
  LET ms == w.potential_meanings
      n == Len(ms)
  IN  \E f \in [1..count -> 1..n] :
        /\ \A a, b \in 1..count : a # b => f[a] # f[b]
        /\ \A a \in 1..count : opts[a].meaning = DefinitionShown(ms[f[a]])
        /\ \A a, b \in 1..count : a < b => ms[f[a]].confidence >= ms[f[b]].confidence
        /\ \A i \in 1..n :
             (\A a \in 1..count : f[a] # i) =>
               \A a \in 1..count : ms[i].confidence <= ms[f[a]].confidence

(* C13: for every input word with at least 2 potential_meanings,
   get_recommendations produces a Recommendation with exactly
   min(3, number of meanings) options, which are the meanings of highest
   confidence in descending confidence order. *)
C13_TopThreeDescending ==
  rec_outcome = "returned" =>
    /\ Len(recommendations) >= Cardinality(KeptPlaces)
    /\ \A k \in 1..Cardinality(KeptPlaces) :
         LET w == rec_words[KeptPlace(k)]
             n == Len(w.potential_meanings)
             opts == recommendations[k].options
         IN  /\ Len(opts) = (IF n < 3 THEN n ELSE 3)
             /\ TopDescending(w, opts, Len(opts))

\* a word with four meanings, two of them sharing the highest confidence,
\* got its three options, and a word with two meanings got two
C13_Witness ==
  /\ rec_outcome = "returned"
  /\ Len(recommendations) = 2
  /\ \E k \in 1..2 :
       /\ Len(rec_words[k].potential_meanings) = 4
       /\ Len(recommendations[k].options) = 3
       /\ recommendations[k].options[3].meaning = <<"x">>
  /\ \E k \in 1..2 :
       /\ Len(rec_words[k].potential_meanings) = 2
       /\ Len(recommendations[k].options) = 2

\* every synonym of meaning m is the word itself, whatever the case
AllExcluded(m, word) ==
  \A i \in 1..Len(m.synonyms) : lower(m.synonyms[i]) = lower(word)

(* C14: in every RecommendationOption no synonym equals the ambiguous word
   case-insensitively, and the synonyms list is never empty: it is the
   one-element placeholder list when the meaning has no synonym left, and
   the remaining synonyms of the meaning otherwise. *)
C14_SynonymsFiltered ==
  rec_outcome = "returned" =>
    /\ Len(recommendations) >= Cardinality(KeptPlaces)
    /\ \A k \in 1..Cardinality(KeptPlaces) :
         LET w == rec_words[KeptPlace(k)]
             opts == recommendations[k].options
         IN  \A a \in 1..Len(opts) :
               /\ opts[a].synonyms # << >>
               /\ \A i \in 1..Len(opts[a].synonyms) :
                    lower(opts[a].synonyms[i]) # lower(w.word)
               /\ \E j \in 1..Len(w.potential_meanings) :
                    LET m == w.potential_meanings[j]
                    IN  /\ opts[a].meaning = DefinitionShown(m)
                        /\ AllExcluded(m, w.word) => opts[a].synonyms = << no_synonyms >>
                        /\ ~AllExcluded(m, w.word) =>
                             {opts[a].synonyms[i] : i \in 1..Len(opts[a].synonyms)} =
                             {m.synonyms[i] : i \in
                                {i \in 1..Len(m.synonyms) : lower(m.synonyms[i]) # lower(w.word)}}

\* the word "Ab" got an option whose only synonym "AB" was excluded, and
\* an option that lost "ab" and kept "c"
C14_Witness ==
  /\ rec_outcome = "returned"
  /\ \E k \in 1..Len(recommendations) :
       /\ recommendations[k].word = <<"A", "b">>
       /\ \E a, b \in 1..Len(recommendations[k].options) :
            /\ recommendations[k].options[a].synonyms = << no_synonyms >>
            /\ recommendations[k].options[a].meaning = no_definition
            /\ recommendations[k].options[b].synonyms = << <<"c">> >>

(* C15: get_recommendations drops every word with fewer than 2
   potential_meanings and returns exactly one Recommendation for each
   remaining word, in input order, with that word's surface form and pos;
   the call does not fail. *)
C15_OnePerRemainingWord ==
  rec_outcome = "returned" =>
    /\ Len(recommendations) = Cardinality(KeptPlaces)
    /\ \A k \in 1..Len(recommendations) :
         k <= Cardinality(KeptPlaces) =>
           /\ recommendations[k].word = rec_words[KeptPlace(k)].word
           /\ recommendations[k].pos = rec_words[KeptPlace(k)].pos

\* a word with one meaning was dropped and the word after it was kept
C15_Witness ==
  /\ rec_outcome = "returned"
  /\ Len(rec_words) = 2
  /\ Len(rec_words[1].potential_meanings) = 1
  /\ Len(rec_words[2].potential_meanings) >= 2
  /\ Len(recommendations) = 1
  /\ recommendations[1].word = rec_words[2].word

\* the argument of the select_best_meaning call, and its meanings
SelMeanings == rec_words[sel_word].potential_meanings

\* the places of the meanings that have a text to embed
WithText == {i \in 1..Len(SelMeanings) : meaning_text(SelMeanings[i]) # << >>}

\* the similarity of the text of meaning i to the context
SimilarityOf(i) == sel_similarities[Cardinality({j \in WithText : j <= i})]

(* C16: select_best_meaning returns a meaning whose text (the definition,
   or the joined synonyms when it is empty) has the maximum cosine
   similarity to the context among the meanings that have a text; it
   returns the first listed meaning when none has a text, and None when
   potential_meanings is empty. *)
C16_SelectsMaxSimilarity ==
  sel_outcome = "returned" =>
    /\ SelMeanings = << >> => selected = << >>
    /\ (SelMeanings # << >> /\ WithText = {}) => selected = << SelMeanings[1] >>
    /\ WithText # {} =>
         \E i \in WithText :
           /\ selected = << SelMeanings[i] >>
           /\ \A j \in WithText : SimilarityOf(j) <= SimilarityOf(i)

(* ------------------ the core operations, each on its inputs ------------- *)
\* a run is a call of detect_ambiguities or calls of the recommender
FrameInit == Init \/ RecInit

FrameNext ==
  \/ rec_pc = "idle" /\ Next
  \/ rec_pc = "ready" /\ RecNext

FrameSpec == FrameInit /\ [][FrameNext]_vars

(* C17: the core operations leave their inputs unchanged: no step of
   detect_ambiguities changes tokens or pos_tags, and get_recommendations
   and select_best_meaning leave the AmbiguousWord records they were given
   as they were, with the same potential_meanings in the same order. *)
C17_InputsUnchanged ==
  [][ /\ pc # "idle" => (tokens' = tokens /\ pos_tags' = pos_tags)
      /\ (rec_outcome' # rec_outcome \/ sel_outcome' # sel_outcome) =>
           rec_words' = rec_words ]_vars

\* both recommender operations returned, for a word whose meanings are not
\* in descending confidence order
C17_Witness ==
  /\ rec_outcome = "returned"
  /\ sel_outcome = "returned"
  /\ \E a, b \in 1..Len(SelMeanings) :
       a < b /\ SelMeanings[a].confidence < SelMeanings[b].confidence

(* ------------------------- detect, further claims ----------------------- *)
\* the tag the token resolves to: that of the first of its variants that
\* has a tag, << >> when none has
ResolvedTag(word) == FirstTag(word, HasTag)

\* how many candidate senses the inventory lists for the token
CandidateCount(word) == Len(wordnet_synsets(lower(word)))

\* token i is a named entity, is not a content word, has no tag, or has
\* fewer than two candidate senses
Unusable(i) ==
  \/ MatchesEntity(tokens[i])
  \/ ResolvedTag(tokens[i]) = << >>
  \/ ~ContentTag(ResolvedTag(tokens[i]))
  \/ CandidateCount(tokens[i]) < 2

(* C18: when no token of the request is usable (each is a named entity, is
   not a content word, has no POS tag or has fewer than 2 candidate senses)
   detect_ambiguities does not fail and the list it builds stays empty. *)
C18_NoUsableTokenGivesEmptyList ==
  (pc # "idle" /\ \A i \in 1..Len(tokens) : Unusable(i)) =>
    /\ pc # "raised"
    /\ error = ""
    /\ ambiguous_words = << >>

\* detect returned for two tokens, none usable: one has two candidate
\* senses and is no named entity but has no tag, the other has a content
\* tag and fewer than two candidate senses
C18_Witness ==
  /\ pc = "returned"
  /\ Len(tokens) = 2
  /\ \A i \in 1..2 : Unusable(i)
  /\ \E i \in 1..2 :
       /\ ~MatchesEntity(tokens[i])
       /\ CandidateCount(tokens[i]) >= 2
       /\ ResolvedTag(tokens[i]) = << >>
  /\ \E i \in 1..2 :
       /\ ContentTag(ResolvedTag(tokens[i]))
       /\ CandidateCount(tokens[i]) < 2
       /\ (i - 1) \in sense_lookups
  /\ ambiguous_words = << >>

\* the candidates of the word just scored whose own definition text has
\* the maximum similarity to the context
MaxCandidates(word) ==
  LET texts == DefinitionTexts(word)
  IN  {k \in 1..Len(texts) :
         /\ texts[k] # << >>
         /\ similarities[TextRank(texts, k)] = SeqMax(similarities)}

(* C19: the record just emitted has a best_meaning, which is one of its
   potential_meanings, and when several candidates share the maximum
   similarity best_meaning is the first of them in candidate order. *)
C19_BestIsFirstMaximum ==
  (outcome = "ambiguous") =>
    LET w == ambiguous_words[Len(ambiguous_words)]
        ids == wordnet_synsets(lower(w.word))
    IN  /\ w.best_meaning # << >>
        /\ \E k \in 1..Len(w.potential_meanings) :
             w.potential_meanings[k] = w.best_meaning[1]
        /\ Cardinality(MaxCandidates(w.word)) >= 2 =>
             w.best_meaning[1].id = ids[SetMin(MaxCandidates(w.word))]

(* ------------------------ TransformerModelManager ----------------------- *)
\* the callers of the shared model_manager, all with the same model name
Threads == 1..NumThreads

ManagerOps == {"get_model", "get_tokenizer", "get_embedding"}

MgrInit ==
  /\ DetectorAtRest
  /\ StatAtRest
  /\ RecAtRest
  /\ SideAtRest
  /\ models = << >>
  /\ tokenizers = << >>
  /\ model_loads = 0
  /\ tokenizer_loads = 0
  /\ thread_op = [t \in Threads |-> ""]
  /\ thread_pc = [t \in Threads |-> "start"]
  /\ thread_model = [t \in Threads |-> 0]
  /\ thread_tokenizer = [t \in Threads |-> 0]

outside_manager == << detector_vars, stat_vars, rec_vars, side_vars >>

\* a caller enters get_model, get_tokenizer or get_embedding
CallManager ==
  \E t \in Threads, op \in ManagerOps :
    /\ thread_pc[t] = "start"
    /\ thread_op' = [thread_op EXCEPT ![t] = op]
    /\ thread_pc' = [thread_pc EXCEPT ![t] =
                       IF op = "get_model" THEN "model_check" ELSE "tokenizer_check"]
    /\ UNCHANGED << models, tokenizers, model_loads, tokenizer_loads,
                    thread_model, thread_tokenizer, outside_manager >>

\* line 56: if model_name not in self._tokenizers
CheckTokenizer ==
  \E t \in Threads :
    /\ thread_pc[t] = "tokenizer_check"
    /\ thread_pc' = [thread_pc EXCEPT ![t] =
                       IF tokenizers = << >> THEN "tokenizer_load" ELSE "tokenizer_return"]
    /\ UNCHANGED << models, tokenizers, model_loads, tokenizer_loads, thread_op,
                    thread_model, thread_tokenizer, outside_manager >>

\* line 58: self._tokenizers[model_name] = AutoTokenizer.from_pretrained(model_name)
LoadTokenizer ==
  \E t \in Threads :
    /\ thread_pc[t] = "tokenizer_load"
    /\ tokenizer_loads' = tokenizer_loads + 1
    /\ tokenizers' = << tokenizer_loads + 1 >>
    /\ thread_pc' = [thread_pc EXCEPT ![t] = "tokenizer_return"]
    /\ UNCHANGED << models, model_loads, thread_op,
                    thread_model, thread_tokenizer, outside_manager >>

\* line 60: return self._tokenizers[model_name]; get_embedding goes on to get_model
ReturnTokenizer ==
  \E t \in Threads :
    /\ thread_pc[t] = "tokenizer_return"
    /\ thread_tokenizer' = [thread_tokenizer EXCEPT ![t] = tokenizers[1]]
    /\ thread_pc' = [thread_pc EXCEPT ![t] =
                       IF thread_op[t] = "get_embedding" THEN "model_check" ELSE "done"]
    /\ UNCHANGED << models, tokenizers, model_loads, tokenizer_loads, thread_op,
                    thread_model, outside_manager >>

\* line 40: if model_name not in self._models
CheckModel ==
  \E t \in Threads :
    /\ thread_pc[t] = "model_check"
    /\ thread_pc' = [thread_pc EXCEPT ![t] =
                       IF models = << >> THEN "model_load" ELSE "model_return"]
    /\ UNCHANGED << models, tokenizers, model_loads, tokenizer_loads, thread_op,
                    thread_model, thread_tokenizer, outside_manager >>

\* line 42: self._models[model_name] = AutoModel.from_pretrained(model_name)
LoadModel ==
  \E t \in Threads :
    /\ thread_pc[t] = "model_load"
    /\ model_loads' = model_loads + 1
    /\ models' = << model_loads + 1 >>
    /\ thread_pc' = [thread_pc EXCEPT ![t] = "model_return"]
    /\ UNCHANGED << tokenizers, tokenizer_loads, thread_op,
                    thread_model, thread_tokenizer, outside_manager >>

\* line 44: return self._models[model_name]
ReturnModel ==
  \E t \in Threads :
    /\ thread_pc[t] = "model_return"
    /\ thread_model' = [thread_model EXCEPT ![t] = models[1]]
    /\ thread_pc' = [thread_pc EXCEPT ![t] = "done"]
    /\ UNCHANGED << models, tokenizers, model_loads, tokenizer_loads, thread_op,
                    thread_tokenizer, outside_manager >>

MgrNext ==
  \/ CallManager
  \/ CheckTokenizer
  \/ LoadTokenizer
  \/ ReturnTokenizer
  \/ CheckModel
  \/ LoadModel
  \/ ReturnModel

ManagerSpec == MgrInit /\ [][MgrNext]_vars

(* C20: for any sequence or interleaving of get_model, get_tokenizer and
   get_embedding calls with the same model name, the model and the
   tokenizer are each loaded at most once, and every call returns the same
   loaded instance. *)
C20_LoadedOnce ==
  /\ model_loads <= 1
  /\ tokenizer_loads <= 1
  /\ \A t, u \in DOMAIN thread_model :
       (thread_model[t] # 0 /\ thread_model[u] # 0) => thread_model[t] = thread_model[u]
  /\ \A t, u \in DOMAIN thread_tokenizer :
       (thread_tokenizer[t] # 0 /\ thread_tokenizer[u] # 0) =>
         thread_tokenizer[t] = thread_tokenizer[u]

(* --------------------------- cosine similarity -------------------------- *)
\* the embeddings a similarity computation can be handed: vectors of 0 to
\* MaxDim components
EmbeddingVectors == SeqUpTo({0, 1}, MaxDim)

\* the sum of a[i] * b[i] over the first n components
RECURSIVE dot(_, _, _)
dot(a, b, n) == IF n = 0 THEN 0 ELSE a[n] * b[n] + dot(a, b, n - 1)

\* a cosine computed over the components the two vectors share, with no check
cosine_similarity_unchecked(a, b) ==
  LET n == IF Len(a) < Len(b) THEN Len(a) ELSE Len(b)
      na == dot(a, a, n)
      nb == dot(b, b, n)
  IN  [error |-> "",
       value |-> << [dot |-> dot(a, b, n),
                    norm2 |-> (IF na = 0 THEN 1 ELSE na) * (IF nb = 0 THEN 1 ELSE nb)] >>]

\* sklearn's cosine_similarity([a], [b])[0][0] as the code calls it: a row
\* without features and rows of different widths are refused with a
\* ValueError; a row of norm 0 is left as it is, which gives 0.0. The value
\* is dot / sqrt(norm2)
cosine_similarity(a, b) ==
  IF Len(a) = 0 \/ Len(b) = 0 \/ Len(a) # Len(b)
  THEN [error |-> "ValueError", value |-> << >>]
  ELSE LET na == dot(a, a, Len(a))
           nb == dot(b, b, Len(b))
       IN  [error |-> "",
            value |-> << [dot |-> dot(a, b, Len(a)),
                         norm2 |-> (IF na = 0 THEN 1 ELSE na) * (IF nb = 0 THEN 1 ELSE nb)] >>]

\* calculate_similarities: the loop ends with the first exception
RECURSIVE calculate_similarities(_, _)
calculate_similarities(context_embedding, definition_embeddings) ==
  IF definition_embeddings = << >> THEN [error |-> "", similarities |-> << >>]
  ELSE LET sim == cosine_similarity(context_embedding, Head(definition_embeddings))
           rest == calculate_similarities(context_embedding, Tail(definition_embeddings))
       IN  IF sim.error # "" THEN [error |-> sim.error, similarities |-> << >>]
           ELSE IF rest.error # "" THEN rest
           ELSE [error |-> "", similarities |-> sim.value \o rest.similarities]

outside_cos == << detector_vars, stat_vars, rec_vars, mgr_vars, ctx_vars, req_vars, enr_vars, tag_vars >>

CosInit ==
  /\ DetectorAtRest
  /\ StatAtRest
  /\ RecAtRest
  /\ MgrAtRest
  /\ CtxAtRest
  /\ ReqAtRest
  /\ EnrAtRest
  /\ TagAtRest
  /\ cos_context \in EmbeddingVectors
  /\ cos_definitions \in SeqUpTo(EmbeddingVectors, 2)
  /\ cos_caller = ""
  /\ cos_outcome = "none"
  /\ cos_result = << >>

\* similarity.calculate_similarities(cos_context, cos_definitions)
CalculateSimilarities ==
  /\ cos_outcome = "none"
  /\ LET r == calculate_similarities(cos_context, cos_definitions)
     IN  /\ cos_outcome' = IF r.error = "" THEN "returned" ELSE "raised"
         /\ cos_result' = r.similarities
  /\ cos_caller' = "calculate_similarities"
  /\ UNCHANGED << cos_context, cos_definitions, outside_cos >>

\* recommender.py lines 116-119, for one definition embedding
SelectSimilarity ==
  /\ cos_outcome = "none"
  /\ Len(cos_definitions) = 1
  /\ LET r == cosine_similarity(cos_context, cos_definitions[1])
     IN  /\ cos_outcome' = IF r.error = "" THEN "returned" ELSE "raised"
         /\ cos_result' = r.value
  /\ cos_caller' = "select_best_meaning"
  /\ UNCHANGED << cos_context, cos_definitions, outside_cos >>

CosNext == CalculateSimilarities \/ SelectSimilarity

CosSpec == CosInit /\ [][CosNext]_vars

\* the context or the k-th definition embedding has no component, or the
\* two have different numbers of components
BadPair(k) ==
  \/ Len(cos_context) = 0
  \/ Len(cos_definitions[k]) = 0
  \/ Len(cos_context) # Len(cos_definitions[k])

(* C21: a cosine similarity of two vectors of which one has zero length, or
   whose dimensionalities differ, fails and returns no number, in
   calculate_similarities and in select_best_meaning alike. *)
C21_BadVectorsFail ==
  (cos_outcome # "none" /\ \E k \in 1..Len(cos_definitions) : BadPair(k)) =>
    /\ cos_outcome = "raised"
    /\ cos_result = << >>

\* calculate_similarities failed on its second definition embedding, whose
\* dimensionality differs, after a first one that could be compared
C21_Witness ==
  /\ cos_outcome = "raised"
  /\ cos_caller = "calculate_similarities"
  /\ Len(cos_definitions) = 2
  /\ ~BadPair(1)
  /\ Len(cos_definitions[2]) > 0
  /\ Len(cos_definitions[2]) # Len(cos_context)

\* how many candidates of the word have a text to embed
TextCount(word) ==
  LET ids == wordnet_synsets(lower(word))
  IN  Cardinality({k \in 1..Len(ids) :
                     /\ ids[k] \in DOMAIN wordnet_synset
                     /\ \/ wordnet_synset[ids[k]].definition # << >>
                        \/ join(wordnet_synset[ids[k]].literals) # << >>})

(* C22: a token for which fewer than 2 definition embeddings can be
   obtained, because at most one of its candidates has a definition or a
   literal, has no record in the output, and no context embedding is
   requested for it. *)
C22_FewEmbeddingsSkipped ==
  \A i \in 1..Len(tokens) :
    TextCount(tokens[i]) < 2 =>
      /\ \A w \in Records : w.position # i - 1
      /\ \A c \in embed_calls : ~(c.token_index = i - 1 /\ c.kind = "context")

\* the call returned after a token with two candidates, one of them
\* without any text, had its one definition embedded and was passed over
C22_Witness ==
  /\ pc = "returned"
  /\ \E i \in 1..Len(tokens) :
       /\ Len(wordnet_synsets(lower(tokens[i]))) >= 2
       /\ TextCount(tokens[i]) = 1
       /\ \E c \in embed_calls : c.token_index = i - 1 /\ c.kind = "definition"
       /\ \A w \in Records : w.position # i - 1

\* the token just decided has exactly two candidate senses and both were
\* compared with the context
TwoSenses ==
  /\ Decided
  /\ CandidateCount(LastToken) = 2
  /\ Len(similarities) = 2

\* the distance between the two similarities of a two-sense token
TwoSpread ==
  IF similarities[1] >= similarities[2]
  THEN similarities[1] - similarities[2]
  ELSE similarities[2] - similarities[1]

(* C23: a token with exactly 2 candidate senses is emitted as ambiguous if
   and only if the spread of its two similarities exceeds the threshold; a
   maximum similarity below 0.6 alone does not make it ambiguous. *)
C23_TwoSensesBySpreadOnly ==
  TwoSenses => (EmittedLast <=> TwoSpread > similarity_threshold)

\* a two-sense token with similarities 0.50 and 0.52 was not emitted
C23_Witness ==
  /\ TwoSenses
  /\ similarities[1] < 60
  /\ similarities[2] < 60
  /\ TwoSpread <= similarity_threshold
  /\ ~EmittedLast

(* ------------------------------ context window -------------------------- *)
\* a sentence of n tokens, all different: "1", "2", ...
NumberedSentence(n) == [k \in 1..n |-> << ToString(k) >>]

outside_ctx == << detector_vars, stat_vars, rec_vars, mgr_vars, cos_vars, req_vars, enr_vars, tag_vars >>

CtxInit ==
  /\ DetectorAtRest
  /\ StatAtRest
  /\ RecAtRest
  /\ MgrAtRest
  /\ CosAtRest
  /\ ReqAtRest
  /\ EnrAtRest
  /\ TagAtRest
  /\ \E n \in 1..MaxSentence :
       /\ ctx_tokens = NumberedSentence(n)
       /\ ctx_index \in 0..(n - 1)
  /\ ctx_result = << >>

\* lines 39-42 of calculate_context_embedding(ctx_tokens, ctx_index, model)
ContextText ==
  /\ ctx_result = << >>
  /\ ctx_result' = << context_text(ctx_tokens, ctx_index) >>
  /\ UNCHANGED << ctx_tokens, ctx_index, outside_ctx >>

CtxNext == ContextText

CtxSpec == CtxInit /\ [][CtxNext]_vars

\* the tokens at the 0-based indices lo..hi, with one space between neighbours
RECURSIVE Spaced(_, _, _)
Spaced(toks, lo, hi) ==
  IF lo = hi THEN toks[lo + 1]
  ELSE Spaced(toks, lo, hi - 1) \o <<" ">> \o toks[hi + 1]

\* how many tokens the text holds: its elements other than the spaces
TokensIn(text) == Cardinality({k \in 1..Len(text) : text[k] # " "})

(* C24: for n tokens and 0 <= i < n the context text of token i is the
   tokens at indices max(0, i - 5) .. min(n - 1, i + 5), in order, joined
   by single spaces; it contains token i and at most 11 tokens. *)
C24_ContextWindow ==
  ctx_result # << >> =>
    LET n == Len(ctx_tokens)
        i == ctx_index
        lo == IF i - 5 > 0 THEN i - 5 ELSE 0
        hi == IF i + 5 < n - 1 THEN i + 5 ELSE n - 1
    IN  /\ ctx_result[1] = Spaced(ctx_tokens, lo, hi)
        /\ \E k \in 1..Len(ctx_result[1]) : << ctx_result[1][k] >> = ctx_tokens[i + 1]
        /\ TokensIn(ctx_result[1]) <= 11

\* a token with more than five tokens on each side got a text of 11 tokens
C24_Witness ==
  /\ ctx_result # << >>
  /\ ctx_index > 5
  /\ ctx_index + 6 < Len(ctx_tokens)
  /\ TokensIn(ctx_result[1]) = 11

(* C25: the output is ordered by strictly increasing position; each
   record's position is the 0-based index of its token in tokens, the
   token at that index is the record's word, and no index has two
   records. *)
C25_OrderedByPosition ==
  /\ \A k \in 1..Len(ambiguous_words) :
       /\ 0 <= ambiguous_words[k].position
       /\ ambiguous_words[k].position < Len(tokens)
       /\ tokens[ambiguous_words[k].position + 1] = ambiguous_words[k].word
  /\ \A k, l \in 1..Len(ambiguous_words) :
       k < l => ambiguous_words[k].position < ambiguous_words[l].position

\* the call returned two records, the second for a token with capitals
C25_Witness ==
  /\ pc = "returned"
  /\ Len(ambiguous_words) = 2
  /\ ambiguous_words[1].position = 0
  /\ ambiguous_words[2].position = 1
  /\ ambiguous_words[2].word # lower(ambiguous_words[2].word)

(* ------------------- /api/disambiguate and process_text ----------------- *)
\* the keys of the preprocessed_data the handler builds
handler_preprocessed_data == {"tokens", "pos_tags", "dependencies", "processed_text"}

\* the arguments process_text calls detect_ambiguities with
detect_call_arguments == <<"tokens", "pos_tags", "lemmas">>

\* the parameters detect_ambiguities declares after self
detect_ambiguities_parameters == <<"tokens", "pos_tags">>

\* the exception process_text ends with for a preprocessed_data with these
\* keys, "" when it returns: line 81 reads preprocessed_data["lemmas"], line
\* 86 passes three arguments to detect_ambiguities
process_text_error(keys) ==
  IF "lemmas" \notin keys THEN "KeyError"
  ELSE IF Len(detect_call_arguments) # Len(detect_ambiguities_parameters) THEN "TypeError"
  ELSE ""

\* the handler answering every exception with 500
handler_status_always_500(exception) == 500

\* the status disambiguate_text answers an exception with: an HTTPException
\* is raised again as it is, anything else becomes a 500
handler_status(exception) == IF exception = "HTTPException" THEN 503 ELSE 500

outside_req == << detector_vars, stat_vars, rec_vars, mgr_vars, cos_vars, ctx_vars, enr_vars, tag_vars >>

ReqInit ==
  /\ DetectorAtRest
  /\ StatAtRest
  /\ RecAtRest
  /\ MgrAtRest
  /\ CosAtRest
  /\ CtxAtRest
  /\ ReqAtRest
  /\ EnrAtRest
  /\ TagAtRest

\* POST /api/disambiguate
Disambiguate ==
  /\ req_pc = "idle"
  /\ req_entry' = "disambiguate_text"
  /\ req_pc' = "check"
  /\ UNCHANGED << req_calls, req_tokens, req_pos_tags, req_keys, req_error, req_status,
                  req_result, outside_req >>

\* process_text called on its own with a preprocessed_data
CallProcessText ==
  /\ req_pc = "idle"
  /\ \E toks \in Sentences :
       \E tags \in PosTagLists(toks) :
         /\ req_tokens' = toks
         /\ req_pos_tags' = tags
  /\ req_keys' \in {handler_preprocessed_data, handler_preprocessed_data \cup {"lemmas"}}
  /\ req_entry' = "process_text"
  /\ req_pc' = "process_text"
  /\ UNCHANGED << req_calls, req_error, req_status, req_result, outside_req >>

\* the request ends with the exception in the handler's except clauses
Fail(exception) ==
  /\ req_error' = exception
  /\ req_status' = handler_status(exception)
  /\ req_pc' = "done"

\* analyze_text lines 38-45: checkService, HTTPException(503) when unavailable
CheckService ==
  /\ req_pc = "check"
  /\ req_calls' = Append(req_calls, "checkService")
  /\ \E available \in BOOLEAN :
       IF available
       THEN req_pc' = "tokenize" /\ UNCHANGED << req_error, req_status >>
       ELSE Fail("HTTPException")
  /\ UNCHANGED << req_entry, req_tokens, req_pos_tags, req_keys, req_result, outside_req >>

\* line 51: tokenize, whose failure is raised again as a RuntimeError
Tokenize ==
  /\ req_pc = "tokenize"
  /\ req_calls' = Append(req_calls, "tokenize")
  /\ \/ /\ req_tokens' \in Sentences
        /\ req_pc' = "pos_tagging"
        /\ UNCHANGED << req_error, req_status >>
     \/ /\ Fail("RuntimeError")
        /\ UNCHANGED req_tokens
  /\ UNCHANGED << req_entry, req_pos_tags, req_keys, req_result, outside_req >>

\* line 54: pos_tagging
PosTagging ==
  /\ req_pc = "pos_tagging"
  /\ req_calls' = Append(req_calls, "pos_tagging")
  /\ \/ /\ req_pos_tags' \in PosTagLists(req_tokens)
        /\ req_pc' = "dependency_parsing"
        /\ UNCHANGED << req_error, req_status >>
     \/ /\ Fail("RuntimeError")
        /\ UNCHANGED req_pos_tags
  /\ UNCHANGED << req_entry, req_tokens, req_keys, req_result, outside_req >>

\* line 57: dependency_parsing
DependencyParsing ==
  /\ req_pc = "dependency_parsing"
  /\ req_calls' = Append(req_calls, "dependency_parsing")
  /\ \/ req_pc' = "named_entity_recognition" /\ UNCHANGED << req_error, req_status >>
     \/ Fail("RuntimeError")
  /\ UNCHANGED << req_entry, req_tokens, req_pos_tags, req_keys, req_result, outside_req >>

\* line 60: named_entity_recognition; then the handler builds preprocessed_data
NamedEntityRecognition ==
  /\ req_pc = "named_entity_recognition"
  /\ req_calls' = Append(req_calls, "named_entity_recognition")
  /\ \/ /\ req_pc' = "process_text"
        /\ req_keys' = handler_preprocessed_data
        /\ UNCHANGED << req_error, req_status >>
     \/ /\ Fail("RuntimeError")
        /\ UNCHANGED req_keys
  /\ UNCHANGED << req_entry, req_tokens, req_pos_tags, req_result, outside_req >>

\* process_text lines 63-103, and the handler's answer to it
ProcessText ==
  /\ req_pc = "process_text"
  /\ req_calls' = Append(req_calls, "process_text")
  /\ IF process_text_error(req_keys) # ""
     THEN /\ req_error' = process_text_error(req_keys)
          /\ req_status' = IF req_entry = "disambiguate_text"
                           THEN handler_status(process_text_error(req_keys))
                           ELSE req_status
          /\ UNCHANGED req_result
     ELSE /\ \E words \in SeqUpTo(RecWordSet, 1) :
               req_result' =
                 << [ambiguous_words |-> words,
                     recommendations |->
                       IF words # << >> THEN get_recommendations(words) ELSE << >>] >>
          /\ req_status' = IF req_entry = "disambiguate_text" THEN 200 ELSE req_status
          /\ UNCHANGED req_error
  /\ req_pc' = "done"
  /\ UNCHANGED << req_entry, req_tokens, req_pos_tags, req_keys, outside_req >>

ReqNext ==
  \/ Disambiguate
  \/ CallProcessText
  \/ CheckService
  \/ Tokenize
  \/ PosTagging
  \/ DependencyParsing
  \/ NamedEntityRecognition
  \/ ProcessText

ReqSpec == ReqInit /\ [][ReqNext]_vars

\* process_text ran with the keys the handler passes
RanProcessText ==
  /\ req_pc = "done"
  /\ Len(req_calls) > 0
  /\ req_calls[Len(req_calls)] = "process_text"
  /\ req_keys = handler_preprocessed_data

(* C26: process_text, called with a preprocessed_data holding tokens and
   pos_tags as the /api/disambiguate handler builds it, completes without
   error and returns a result with the detector's ambiguous_words and the
   recommender's recommendations. *)
C26_ProcessTextCompletes ==
  RanProcessText =>
    /\ req_error = ""
    /\ req_result # << >>

\* the preprocessing calls of analyze_text
PreprocessingCalls == {"tokenize", "pos_tagging", "dependency_parsing", "named_entity_recognition"}

(* C27: in the /api/disambiguate handler the availability of the
   annotation service is checked before any tokenization, POS-tagging,
   parsing or NER call; when it is unavailable the request ends with 503
   and nothing after the check is run; any other failure during
   preprocessing or detection ends the request with 500. *)
C27_ServiceCheckedFirst ==
  req_entry = "disambiguate_text" =>
    /\ (\E k \in 1..Len(req_calls) : req_calls[k] \in PreprocessingCalls) =>
         req_calls[1] = "checkService"
    /\ req_error = "HTTPException" =>
         /\ req_status = 503
         /\ req_calls = << "checkService" >>
    /\ req_status = 503 => req_error = "HTTPException"
    /\ req_error \notin {"", "HTTPException"} => req_status = 500
    /\ (req_pc = "done" /\ req_error = "") => req_status = 200

\* one request ended with 503 right after the check
C27_Witness ==
  /\ req_entry = "disambiguate_text"
  /\ req_pc = "done"
  /\ req_status = 503
  /\ req_calls = << "checkService" >>

(* --------------------------- enrich_top_meanings ------------------------ *)
\* sorted_meanings without the [:9]
kept_meanings_all(potential_meanings) == sorted_meanings(potential_meanings)

\* sorted(potential_meanings, key = confidence, reverse = True)[:9]
kept_meanings(potential_meanings) ==
  LET sorted == sorted_meanings(potential_meanings)
  IN  SubSeq(sorted, 1, IF Len(sorted) < 9 THEN Len(sorted) ELSE 9)

\* the entries lines 69-76 collect for the word at 0-based index word_idx
collected_of(word_idx, word_data) ==
  LET kept == kept_meanings(word_data.potential_meanings)
  IN  [k \in 1..Len(kept) |->
        [word_idx |-> word_idx, word |-> word_data.word, sense_id |-> kept[k].id,
         confidence |-> kept[k].confidence]]

RECURSIVE collect_from(_, _)
\* all_meanings_to_enrich after the words from 1-based index k on
collect_from(words, k) ==
  IF k > Len(words) THEN << >>
  ELSE collected_of(k - 1, words[k]) \o collect_from(words, k + 1)

\* the words after the loop of lines 50-76
words_after_collect(words) ==
  [k \in 1..Len(words) |->
    IF words[k].potential_meanings = << >> THEN words[k]
    ELSE [words[k] EXCEPT !.potential_meanings = kept_meanings(@)]]

\* all_meanings_to_enrich[i:i+batch_size]
batch_at(collected, i, batch_size) ==
  SubSeq(collected, i + 1,
         IF i + batch_size < Len(collected) THEN i + batch_size ELSE Len(collected))

\* the words after the entries of one batch are appended (lines 89-109 with
\* kind "generated", lines 115-129 with kind "fallback")
words_after_batch(words, batch, kind) ==
  [k \in 1..Len(words) |->
    LET mine == SelectSeq(batch, LAMBDA m : m.word_idx = k - 1)
    IN  [words[k] EXCEPT !.meaning_enrichments =
          @ \o [j \in 1..Len(mine) |-> [id |-> mine[j].sense_id, enrichment |-> kind]]]]

\* the largest number of potential meanings of an input word
MaxMeanings == 10

\* the largest batch_size
MaxBatch == 2

\* the largest number of batches that fail in one call
MaxFailures == 1

\* an ambiguous word with n meanings whose confidences are neither sorted
\* nor distinct
EnrichWord(n) ==
  [word |-> <<"w">>,
   potential_meanings |->
     [k \in 1..n |-> Meaning(ToString(k), <<"x">>, << >>, (k % 3) * 30)],
   meaning_enrichments |-> << >>]

EnrichWordSet == {EnrichWord(n) : n \in {0, 2, MaxMeanings}}

outside_enr == << detector_vars, stat_vars, rec_vars, mgr_vars, cos_vars, ctx_vars, req_vars, tag_vars >>

EnrInit ==
  /\ DetectorAtRest
  /\ StatAtRest
  /\ RecAtRest
  /\ MgrAtRest
  /\ CosAtRest
  /\ CtxAtRest
  /\ ReqAtRest
  /\ TagAtRest
  /\ enr_pc = "ready"
  /\ enr_words \in SeqUpTo(EnrichWordSet, MaxRecWords)
  /\ enr_batch_size \in 1..MaxBatch
  /\ all_meanings_to_enrich = << >>
  /\ enr_i = 0
  /\ enr_failures = 0

\* lines 44-76: sort and cut every word's meanings, collect them
CollectMeanings ==
  /\ enr_pc = "ready"
  /\ enr_words' = words_after_collect(enr_words)
  /\ all_meanings_to_enrich' = collect_from(enr_words, 1)
  /\ enr_pc' = "batches"
  /\ UNCHANGED << enr_batch_size, enr_i, enr_failures, outside_enr >>

\* lines 78-129: one batch, generated or failed
ProcessBatch ==
  /\ enr_pc = "batches"
  /\ enr_i < Len(all_meanings_to_enrich)
  /\ LET batch == batch_at(all_meanings_to_enrich, enr_i, enr_batch_size)
     IN  \/ /\ enr_words' = words_after_batch(enr_words, batch, "generated")
            /\ UNCHANGED enr_failures
         \/ /\ enr_failures < MaxFailures
            /\ enr_words' = words_after_batch(enr_words, batch, "fallback")
            /\ enr_failures' = enr_failures + 1
  /\ enr_i' = enr_i + enr_batch_size
  /\ UNCHANGED << enr_pc, enr_batch_size, all_meanings_to_enrich, outside_enr >>

\* lines 131-156: the loop is over
FinishEnrichment ==
  /\ enr_pc = "batches"
  /\ enr_i >= Len(all_meanings_to_enrich)
  /\ enr_pc' = "done"
  /\ UNCHANGED << enr_words, enr_batch_size, all_meanings_to_enrich, enr_i, enr_failures,
                  outside_enr >>

EnrNext ==
  \/ CollectMeanings
  \/ ProcessBatch
  \/ FinishEnrichment

EnrSpec == EnrInit /\ [][EnrNext]_vars

\* the word's meanings are in descending order of confidence
EnrDescending(w) ==
  \A k \in 1..(Len(w.potential_meanings) - 1) :
    w.potential_meanings[k].confidence >= w.potential_meanings[k + 1].confidence

\* the word has one enrichment per meaning, same ids, same order
EnrAligned(w) ==
  /\ Len(w.meaning_enrichments) = Len(w.potential_meanings)
  /\ \A k \in 1..Len(w.potential_meanings) :
       w.meaning_enrichments[k].id = w.potential_meanings[k].id

(* C28: after enrich_top_meanings, for every batch_size >= 1 and whether
   or not a batch failed, every ambiguous word with potential meanings
   keeps at most 9 of them in descending order of confidence and has
   exactly one meaning_enrichments entry per kept meaning, with the same
   sense ids in the same order. *)
C28_EnrichmentsAligned ==
  enr_pc = "done" =>
    \A k \in 1..Len(enr_words) :
      enr_words[k].potential_meanings # << >> =>
        /\ Len(enr_words[k].potential_meanings) <= 9
        /\ EnrDescending(enr_words[k])
        /\ EnrAligned(enr_words[k])

\* a call with a failed batch ended with a word cut to 9 meanings
C28_Witness ==
  /\ enr_pc = "done"
  /\ enr_failures > 0
  /\ \E k \in 1..Len(enr_words) :
       /\ Len(enr_words[k].potential_meanings) = 9
       /\ \E j \in 1..9 : enr_words[k].meaning_enrichments[j].enrichment = "fallback"
       /\ \E j \in 1..9 : enr_words[k].meaning_enrichments[j].enrichment = "generated"

(* ------------------------- dispersion and spread ------------------------ *)
\* thresholds below, at and above the spreads of StatLists
RuleThresholds == {-10, 0, 10, 15, 40, 90}

\* synset counts on both sides of the rule's limits 2 and 5
RuleCounts == {0, 2, 3, 5, 6}

\* the decision rule without its dispersion disjunct
RuleWithoutDispersion(s, count, t) ==
  /\ Len(s) > 1
  /\ \/ Rule1(s, t)
     \/ Rule3(s, count)
     \/ Rule4(s, count)

(* C29: for every list of similarities the dispersion is at most the
   spread; so whenever dispersion > threshold holds, spread > threshold
   holds too, and the decision rule without the dispersion disjunct
   classifies every token as is_ambiguous does. *)
C29_DispersionAtMostSpread ==
  stat_result # << >> =>
    LET r == stat_result[1]
    IN  /\ r.sim_diff >= 0
        /\ r.sim_std.var_num <= r.sim_diff * r.sim_diff * r.sim_std.var_den
        /\ \A t \in RuleThresholds :
             /\ std_gt(r.sim_std, t) => r.sim_diff > t
             /\ \A count \in RuleCounts :
                  is_ambiguous(stat_input, count, t) <=> RuleWithoutDispersion(stat_input, count, t)

\* the statistics of a list whose dispersion is above the threshold 0.15
C29_Witness ==
  /\ stat_result # << >>
  /\ Len(stat_input) > 1
  /\ std_gt(stat_result[1].sim_std, 15)
  /\ is_ambiguous(stat_input, 2, 15)

(* ------------------------ POS lookup of a sentence ---------------------- *)
\* the largest number of pairs in pos_tags
MaxPairs == 3

\* tokens of one family of case variants, and one other token
TagTokens == { <<"A", "B">>, <<"a", "b">>, <<"d">> }

\* the pairs the tagger may return for them
TagItems == {it \in PosItems : it[1] \in TagTokens \cup { <<"A", "b">> }}

outside_tag == << detector_vars, stat_vars, rec_vars, mgr_vars, cos_vars, ctx_vars, req_vars, enr_vars >>

TagInit ==
  /\ DetectorAtRest
  /\ StatAtRest
  /\ RecAtRest
  /\ MgrAtRest
  /\ CosAtRest
  /\ CtxAtRest
  /\ ReqAtRest
  /\ EnrAtRest
  /\ tag_tokens \in SeqUpTo(TagTokens, MaxTokens)
  /\ tag_pos_tags \in SeqUpTo(TagItems, MaxPairs)
  /\ tag_map = << >>
  /\ tag_resolved = << >>

\* detect_ambiguities line 136: token_pos_map = self._create_token_pos_map(pos_tags)
CreateTokenPosMap ==
  /\ tag_map = << >>
  /\ tag_map' = << create_token_pos_map(tag_pos_tags) >>
  /\ UNCHANGED << tag_tokens, tag_pos_tags, tag_resolved, outside_tag >>

\* line 150: pos = self._get_pos_tag(token, token_pos_map) for the next token
GetPosTag ==
  /\ tag_map # << >>
  /\ Len(tag_resolved) < Len(tag_tokens)
  /\ tag_resolved' =
       Append(tag_resolved, get_pos_tag(tag_tokens[Len(tag_resolved) + 1], tag_map[1]))
  /\ UNCHANGED << tag_tokens, tag_pos_tags, tag_map, outside_tag >>

TagNext ==
  \/ CreateTokenPosMap
  \/ GetPosTag

TagSpec == TagInit /\ [][TagNext]_vars

\* the places of the surface form among pos_tags
PairsOf(word) == {k \in 1..Len(tag_pos_tags) : tag_pos_tags[k][1] = word}

\* the tag of the last pair of the surface form
LastPairTag(word) == tag_pos_tags[SetMax(PairsOf(word))][2]

\* posTags pairs the surface form with different tags
SeveralTags(word) ==
  \E j, k \in PairsOf(word) : tag_pos_tags[j][2] # tag_pos_tags[k][2]

\* the last pair of the surface form has a non-empty tag
LastPairTagged(word) == PairsOf(word) # {} /\ LastPairTag(word) # << >>

\* the tag of the first variant whose last pair has a non-empty tag
FirstLastPairTag(word) ==
  LET v == Variants(word)
  IN  IF LastPairTagged(v[1]) THEN LastPairTag(v[1])
      ELSE IF LastPairTagged(v[2]) THEN LastPairTag(v[2])
      ELSE IF LastPairTagged(v[3]) THEN LastPairTag(v[3])
      ELSE << >>

\* two occurrences of one surface form got the same tag and the same
\* content-word decision
SameDecision ==
  \A i, j \in 1..Len(tag_resolved) :
    tag_tokens[i] = tag_tokens[j] =>
      /\ tag_resolved[i] = tag_resolved[j]
      /\ ContentTag(tag_resolved[i]) <=> ContentTag(tag_resolved[j])

(* C30 as stated: when posTags holds one surface form more than once with
   different tags, every occurrence of that token resolves to the tag of
   the last such pair, and two occurrences of one surface form receive the
   same content-word decision. *)
C30_LastPairWins ==
  /\ \A k \in 1..Len(tag_resolved) :
       SeveralTags(tag_tokens[k]) => tag_resolved[k] = LastPairTag(tag_tokens[k])
  /\ SameDecision

(* C30 amended: when posTags holds one surface form more than once with
   different tags, every occurrence of that token resolves to the tag of
   the last such pair if that tag is non-empty, and otherwise to the tag
   of the first of its lowercased and capitalized variants whose own last
   pair has a non-empty tag (no tag when there is none); two occurrences
   of one surface form receive the same content-word decision. *)
C30_LastNonEmptyPairWins ==
  /\ \A k \in 1..Len(tag_resolved) :
       SeveralTags(tag_tokens[k]) =>
         /\ LastPairTagged(tag_tokens[k]) => tag_resolved[k] = LastPairTag(tag_tokens[k])
         /\ tag_resolved[k] = FirstLastPairTag(tag_tokens[k])
  /\ SameDecision

\* both occurrences of a surface form that posTags pairs with two tags
\* were resolved to the later, non-empty one
C30_Witness ==
  /\ Len(tag_resolved) = 2
  /\ tag_tokens[1] = tag_tokens[2]
  /\ SeveralTags(tag_tokens[1])
  /\ LastPairTagged(tag_tokens[1])
  /\ tag_pos_tags[1][1] = tag_tokens[1]
  /\ tag_pos_tags[1][2] # tag_resolved[1]
  /\ tag_pos_tags[1][2] # << >>

====
